---- MODULE Spec2Model ----
(***************************************************************************)
(* Verification model of the Unipus task-solving engine: the answer cache  *)
(* (src/src/services/cache_service.py), the cacheable solvers              *)
(* (src/src/strategies/*.py), the chained-task controller (src/main.py)    *)
(* and the voice-scoring interceptor                                       *)
(* (src/src/strategies/base_voice_strategy.py).                            *)
(*                                                                         *)
(* Each subsystem has its own specification (SpecCache, SpecSolver,        *)
(* SpecChain, SpecSolverOrChain, SpecDispatch, SpecLadder, SpecRolePlay,   *)
(* SpecLadderFair, SpecSplice, SpecRecording, SpecVoiceOrRolePlay,         *)
(* SpecVisits, SpecReplay); the                                            *)
(* variables of the subsystems a                                           *)
(* specification does not exercise stay at their idle values.              *)
(***************************************************************************)
EXTENDS Integers, Sequences, FiniteSets, TLC

VARIABLES
  \* ---- answer cache (CacheService) ----
  cache,        \* self.cache: the nested dict, as a map path -> node
  file,         \* content of answer_cache.json: sequence of documents written
  opCount,      \* number of CacheService calls made so far
  lastCall,     \* the most recent CacheService call and its arguments
  prevCall,     \* the call before it
  getResult,    \* what the most recent get_task_page_cache returned
  savedLog,     \* key -> arguments of the last save call made under it
  repeated,     \* the last call was a save repeating the previous save
  \* ---- global flags (module src.config) ----
  cfg,          \* flag name -> "undef" | "on" | "off"
  \* ---- voice solver and score ladder (BaseVoiceStrategy) ----
  vsolver,      \* strategy_type of the voice solver that runs
  vchained,     \* is_chained_task
  vpc,          \* position of the solver: "prepare", "synth", "record", "finish", "done"
  nUtter,       \* number of utterance containers on the page
  utter,        \* index of the utterance being processed (1-based)
  attempt,      \* index of the current entry of retry_params (0-based)
  lastScore,    \* last_score
  attemptLog,   \* the attempts made for utterance logOf (synthesis outcome, score)
  logOf,        \* the utterance attemptLog belongs to
  synthCalls,   \* per utterance: number of text_to_wav calls made for it
  verdictCalls, \* per utterance: synthCalls when the ladder returned
  outcome,      \* per utterance: "running", "accept" or "abort"
  shouldAbort,  \* should_abort_page
  vresult,      \* return value of execute: "none", "true", "false", "raised"
  vsubmitted,   \* the page's submit control has been clicked
  \* ---- voice-scoring interceptor (page-side scripts of BaseVoiceStrategy) ----
  win,          \* the globals the scripts keep on `window`
  conns,        \* the page's open WebSockets: the send wrappers each one carries
  sphase,       \* "idle", "oneshot" (installed), "roleplay", "turn"
  armed,        \* a payload was armed during the current attempt
  armedPayload, \* the payload armed in the current attempt
  binSeen,      \* binary frames the page sent on spliced channels since arming
  binUnarmed,   \* binary frames sent on spliced channels of the attempt before arming
  substituted,  \* synthetic payloads that reached the network in the current attempt
  firstFate,    \* what happened to the first binary frame after arming
  micForwarded, \* a microphone frame reached the network through a spliced channel
  lastNet,      \* the last message handed to the browser's own send
  lastSent,     \* the last message the page passed to ws.send
  \* ---- cacheable solver (single/multiple choice, fill-blank, drag-order) ----
  ssolver,      \* strategy_type of the solver that runs
  schained,     \* is_chained_task
  spage,        \* what the solver finds on the page: question containers, answer slots
  spc,          \* position: "idle", "start", "ai", "fill", "submit", "harvest", "done"
  startEntry,   \* what get_task_page_cache returned at the cache check
  toFill,       \* answers_to_fill / target_order
  useCache,     \* use_cache
  cacheWriteNeeded, \* cache_write_needed
  fillSource,   \* where the answers put on the page came from: "none", "cache", "ai"
  filled,       \* the answers put on the page
  aiCalls,      \* number of get_chat_completion calls
  ssubmitted,   \* the submit control was clicked
  harvest,      \* the answers extracted from the answer-review page
  sresult,      \* return value of execute: "none", "true", "false", "raised"
  declined,     \* the prompt the user declined: "none", "prompt", "submit"
  \* ---- chained-task controller (run_strategy_on_current_page) ----
  cpc,          \* position: "idle", "enter", "match", "solving", "button", "done"
  subTaskIndex, \* sub_task_index
  tasksToCache, \* tasks_to_cache: the pending cache writes {index, type}
  cstrategy,    \* strategy_type of current_strategy_instance ("none": no match)
  dispatchLog,  \* the indices for which the strategy search was started, in order
  settled,      \* the indices whose loop body ran to the button check
  nextClicks,   \* number of clicks on the 'next' control
  chainEnd,     \* how the controller ended: "none", "submitted", "broken", ...
  failedAt,     \* the sub-task whose loop body ended in a break (lines 197, 200), or -1
  chainLog,     \* what the final-submission branch did, in order
  rateLimitSeen, \* handle_rate_limit_modal found the 'too frequent' modal
  declinedAt,   \* the sub-task whose solver's prompt the user declined, or -1
  aiSolved,     \* {index, type} of the sub-tasks a cacheable solver solved
  sharedContext, \* shared_context: the materials appended, in order
  passedContext, \* per solver call: sub-task, shared_context passed, extractions before
  materialSeen, \* what _extract_additional_material_for_ai returned, call by call
  \* ---- strategy search (the for loop over strategies_to_run) ----
  dpc,          \* position: "idle", "begin", "loop", "done"
  dpage,        \* the strategies whose check returns True on the current page
  dlist,        \* strategies_to_run
  dpos,         \* position of the for loop in strategies_to_run (1-based)
  checked,      \* the strategies whose check was called, in call order
  instantiated, \* the strategies instantiated, in order
  daff,         \* the control found on the page: "submit", "next" or "none"
  invocation,   \* how the matched strategy's execute was called and what came of it
  \* ---- role play (RolePlayStrategy.execute) ----
  rpc,          \* position: "idle", "prepare", "turn", "done"
  rpChained,    \* is_chained_task
  myTurns,      \* len(self.my_turns): the turns the page gives to our role
  currentRetry, \* current_retry
  rturn,        \* the turn _execute_and_evaluate_turns is at (1-based)
  turnScores,   \* turn_scores of the running pass over the dialogue
  prevScores,   \* turn_scores of the pass before it
  rpResult,     \* return value of execute: "none", "true", "false", "raised"
  rpSubmitted,  \* the submit control was clicked
  \* ---- timing of one recording (one-shot attempt or role-play turn) ----
  tmode,        \* "oneshot" or "persistent"
  tpc,          \* position: "idle", "arm", "click", "await", "sleep", "done"
  clock,        \* time, in units of RecordingBuffer (0.5 s)
  duration,     \* length of the synthetic clip
  armedAt,      \* when the payload was armed, or -1
  sleepFrom,    \* when the wait before the stop click began, or -1
  substitutedAt, \* when the payload replaced a binary frame, or -1
  stoppedAt,    \* when the stop control was clicked, or -1
  \* ---- the remote-article latch over a sequence of page visits ----
  hasFetched,   \* config.HAS_FETCHED_REMOTE_ARTICLE: "undef", "unset" or "set"
  visitLog,     \* the page visits made so far: branch, latch as the branch begins, fetch
  \* ---- one run of _cache_chained_answers ----
  replay        \* pc, pending list, what each review screen yields, loop
                \* position, current_analysis_index, screen shown, visits, end

cacheVars == <<cache, file, opCount, lastCall, prevCall, getResult, savedLog, repeated>>

voiceVars == <<vsolver, vchained, vpc, nUtter, utter, attempt, lastScore, attemptLog,
               logOf, synthCalls, verdictCalls, outcome, shouldAbort, vresult, vsubmitted>>

spliceVars == <<win, conns, sphase, armed, armedPayload, binSeen, binUnarmed, substituted,
                firstFate, micForwarded, lastNet, lastSent>>

solverVars == <<ssolver, schained, spage, spc, startEntry, toFill, useCache, cacheWriteNeeded,
                fillSource, filled, aiCalls, ssubmitted, harvest, sresult, declined>>

chainVars == <<cpc, subTaskIndex, tasksToCache, cstrategy, dispatchLog, settled, nextClicks,
               chainEnd, failedAt, chainLog, rateLimitSeen, declinedAt, aiSolved,
               sharedContext, passedContext, materialSeen>>

dispatchVars == <<dpc, dpage, dlist, dpos, checked, instantiated, daff, invocation>>

rolePlayVars == <<rpc, rpChained, myTurns, currentRetry, rturn, turnScores, prevScores,
                  rpResult, rpSubmitted>>

recordingVars == <<tmode, tpc, clock, duration, armedAt, sleepFrom, substitutedAt, stoppedAt>>

visitVars == <<hasFetched, visitLog>>

vars == <<cacheVars, cfg, voiceVars, spliceVars, solverVars, chainVars, dispatchVars,
          rolePlayVars, recordingVars, visitVars, replay>>

\* what the actions of one subsystem leave alone
nonCacheVars == <<cfg, voiceVars, spliceVars, solverVars, chainVars, dispatchVars,
  rolePlayVars, recordingVars, visitVars, replay>>
nonReplayVars == <<cfg, voiceVars, spliceVars, solverVars, chainVars, dispatchVars,
  rolePlayVars, recordingVars, visitVars>>
nonVoiceVars == <<cacheVars, spliceVars, solverVars, chainVars, dispatchVars,
  rolePlayVars, recordingVars, visitVars, replay>>
nonSpliceVars == <<cacheVars, cfg, voiceVars, solverVars, chainVars, dispatchVars,
  rolePlayVars, recordingVars, visitVars, replay>>
nonSolverVars == <<opCount, lastCall, prevCall, getResult, savedLog, repeated, cfg, voiceVars,
                   spliceVars, chainVars, dispatchVars, rolePlayVars, recordingVars, visitVars, replay>>
nonChainVars == <<opCount, lastCall, prevCall, getResult, savedLog, repeated, voiceVars,
                  spliceVars, solverVars, dispatchVars, rolePlayVars, recordingVars, visitVars, replay>>
nonDispatchVars == <<cacheVars, cfg, voiceVars, spliceVars, solverVars, chainVars,
                     rolePlayVars, recordingVars, visitVars, replay>>
nonRolePlayVars == <<cacheVars, cfg, voiceVars, spliceVars, solverVars, chainVars, dispatchVars,
                     recordingVars, visitVars, replay>>
nonRecordingVars == <<cacheVars, cfg, voiceVars, spliceVars, solverVars, chainVars, dispatchVars,
                      rolePlayVars, visitVars, replay>>

-----------------------------------------------------------------------------
(* Bounds *)

\* number of CacheService calls explored by SpecCache
MaxOps == 2

\* number of page visits followed by SpecVisits
MaxVisits == 3

\* largest number of turns a role-play dialogue gives to our role
MaxTurns == 2

\* the time up to which one recording is followed, in units of 0.5 s
MaxClock == 6

\* largest number of utterance containers on a voice page
MaxUtterances == 2

\* largest number of WebSockets the page holds open
MaxConns == 2

\* largest number of binary frames the page sends during one attempt
MaxFrames == 2

\* largest number of questions / answer slots on a page, and of answers in
\* a cached entry, an AI reply or a harvest
MaxSlots == 2

\* largest number of sub-tasks of a chain
MaxSubTasks == 3

-----------------------------------------------------------------------------
(* JSON values.  The cache is a tree of dicts whose leaves are strings or  *)
(* lists of strings.  It is held as a function from paths (sequences of    *)
(* dict keys, <<>> being the root) to nodes; the children of a dict node   *)
(* at p are the paths Append(p, key) in the domain.                        *)

DictNode == [kind |-> "dict", s |-> "", l |-> <<>>]
StrNode(x) == [kind |-> "str", s |-> x, l |-> <<>>]
ListNode(xs) == [kind |-> "list", s |-> "", l |-> xs]

\* {} : the empty cache
EmptyCache == (<<>> :> DictNode)

IsPrefix(q, p) == Len(q) <= Len(p) /\ SubSeq(p, 1, Len(q)) = q

\* the tree without the node at q and everything below it
RemoveSubtree(c, q) ==
  [p \in {x \in DOMAIN c : ~IsPrefix(q, x)} |-> c[p]]

\* d[key] = node for the dict at p (any previous value of the key is replaced)
SetItem(c, p, key, node) ==
  LET q == Append(p, key)
      base == RemoveSubtree(c, q)
  IN  [x \in (DOMAIN base) \cup {q} |-> IF x = q THEN node ELSE base[x]]

\* the keys of the dict at p
KeysAt(c, p) == {x[Len(p) + 1] : x \in {y \in DOMAIN c : Len(y) = Len(p) + 1 /\ IsPrefix(p, y)}}

\* Python truthiness of the value at p
Truthy(c, p) ==
  CASE c[p].kind = "dict" -> KeysAt(c, p) # {}
    [] c[p].kind = "str"  -> c[p].s # ""
    [] c[p].kind = "list" -> c[p].l # <<>>

\* the value at p as a tree of its own (paths relative to p)
SubTree(c, p) ==
  [q \in {SubSeq(x, Len(p) + 1, Len(x)) : x \in {y \in DOMAIN c : IsPrefix(p, y)}} |-> c[p \o q]]

-----------------------------------------------------------------------------
(* CacheService *)

\* hashlib.sha256(question_text).hexdigest()[:16] of the texts used below
_generate_question_hash(q) ==
  CASE q = "Q1" -> "32d833f348ce377c"
    [] q = "Q2" -> "8845886be6cbcf28"

\* get_task_page_cache: walk the key; None on a missing segment; .get on a
\* value that is not a dict raises AttributeError
RECURSIVE GetWalk(_, _, _, _)
GetWalk(c, k, i, p) ==
  IF i > Len(k) THEN [status |-> "found", path |-> p]
  ELSE IF c[p].kind # "dict" THEN [status |-> "raise", path |-> p]
  ELSE IF Append(p, k[i]) \notin DOMAIN c THEN [status |-> "none", path |-> p]
  ELSE GetWalk(c, k, i + 1, Append(p, k[i]))

get_task_page_cache(c, k) == GetWalk(c, k, 1, <<>>)

\* the setdefault walk of save_task_page_answers (lines 65-67): creates the
\* missing dicts along the key; .setdefault on a non-dict raises
RECURSIVE SetDefaultWalk(_, _, _, _)
SetDefaultWalk(c, k, i, p) ==
  IF i > Len(k) THEN [c |-> c, status |-> "ok", path |-> p]
  ELSE IF c[p].kind # "dict" THEN [c |-> c, status |-> "raise", path |-> p]
  ELSE LET q == Append(p, k[i])
           c2 == IF q \in DOMAIN c THEN c
                 ELSE [x \in (DOMAIN c) \cup {q} |-> IF x = q THEN DictNode ELSE c[x]]
       IN  SetDefaultWalk(c2, k, i + 1, q)

\* questions.update(questions_node) (lines 70-77, 81): one
\* {hash: {"answer": correct_answer}} per item, later items win
RECURSIVE UpdateQuestions(_, _, _, _)
UpdateQuestions(c, qp, items, i) ==
  IF i > Len(items) THEN c
  ELSE LET h == _generate_question_hash(items[i].question_text)
           c1 == SetItem(c, qp, h, DictNode)
           c2 == SetItem(c1, Append(qp, h), "answer", StrNode(items[i].correct_answer))
       IN  UpdateQuestions(c2, qp, items, i + 1)

\* _save_cache opening the file in append mode
_save_cache_append(c, f) == Append(f, c)

\* _save_cache: open(path, 'w') and json.dump: the file holds exactly the
\* document just written
_save_cache(c, f) == <<c>>

\* save_task_page_answers(k, t, a).  a is [shape, strs, dicts]: the solvers
\* pass a list of answer strings (shape "strs"), the signature documents a
\* list of {question_text, correct_answer} dicts (shape "dicts").
\* Result: the cache and file afterwards, and whether the call raised.
save_task_page_answers(c, f, k, t, a) ==
  LET w == SetDefaultWalk(c, k, 1, <<>>)
      p == w.path
  IN  IF w.status = "raise"
        THEN [c |-> w.c, f |-> f, raised |-> TRUE]            \* AttributeError, line 67
      ELSE IF a.shape = "strs" /\ a.strs # <<>>
        THEN [c |-> w.c, f |-> f, raised |-> TRUE]            \* TypeError, line 72
      ELSE IF w.c[p].kind # "dict"
        THEN [c |-> w.c, f |-> f, raised |-> TRUE]            \* TypeError, line 80
      ELSE LET c1 == SetItem(w.c, p, "type", StrNode(t))
               qp == Append(p, "questions")
           IN  IF qp \in DOMAIN c1 /\ c1[qp].kind # "dict"
                 THEN [c |-> c1, f |-> f, raised |-> TRUE]    \* AttributeError, line 81
               ELSE LET c2 == IF qp \in DOMAIN c1 THEN c1
                              ELSE [x \in (DOMAIN c1) \cup {qp} |-> IF x = qp THEN DictNode ELSE c1[x]]
                        c3 == UpdateQuestions(c2, qp, a.dicts, 1)
                    IN  [c |-> c3, f |-> _save_cache(c3, f), raised |-> FALSE]

\* _load_cache: missing or empty file -> {}, one JSON document -> it,
\* anything else is malformed JSON -> {}
_load_cache(f) == IF Len(f) = 1 THEN f[1] ELSE EmptyCache

\* the file contents a process that dies inside _save_cache can leave behind:
\* the old content (before open), no complete document (open(path, 'w') has
\* truncated the file and json.dump has written nothing or a prefix of the
\* document), or the new document (after json.dump)
_save_cache_crash(c, f) == {f, <<>>, _save_cache(c, f)}

-----------------------------------------------------------------------------
(* Global flags.  src/src/config.py defines none of FORCE_AI,              *)
(* AUTO_MODE_NO_CONFIRM, FAST_CACHE_MODE, HAS_FETCHED_REMOTE_ARTICLE and   *)
(* IS_AUTO_MODE; main.py assigns IS_AUTO_MODE, FAST_CACHE_MODE and the     *)
(* latch at run time.  Reading a flag that is not defined raises           *)
(* AttributeError.                                                         *)

FlagUndef == "undef"

\* values of a flag once a definition exists
FlagSet == {"on", "off"}

\* IS_AUTO_MODE is assigned by main() and by both run modes before any page
\* is visited
AutoModeValues == {"on", "off"}

\* flags no file under src/ assigns: undefined, or defined by the part of
\* the configuration that is not under src/
UnassignedFlagValues == {FlagUndef} \cup FlagSet

\* `not (config.IS_AUTO_MODE and config.AUTO_MODE_NO_CONFIRM)`:
\* "ask" the user, "skip" the prompt, or "raise" AttributeError
ConfirmGate(c) ==
  IF c.IS_AUTO_MODE = "off" THEN "ask"
  ELSE IF c.AUTO_MODE_NO_CONFIRM = FlagUndef THEN "raise"
  ELSE IF c.AUTO_MODE_NO_CONFIRM = "on" THEN "skip"
  ELSE "ask"

\* the page before any script of BaseVoiceStrategy ran
Unset == "unset"

FreshWindow ==
  [WebSocket |-> "native",
   originalWebSocketOneShot |-> Unset,
   injectedAudioB64OneShot |-> Unset,
   ttsAudioSentOneShot |-> Unset,
   ai_audio_payload |-> Unset,
   isAiWebSocketHijackInstalled |-> FALSE]

NoMessage == [conn |-> 0, kind |-> "none", p |-> Unset]

SpliceIdle ==
  /\ win = FreshWindow
  /\ conns = <<>>
  /\ sphase = "idle"
  /\ armed = FALSE
  /\ armedPayload = Unset
  /\ binSeen = 0
  /\ binUnarmed = 0
  /\ substituted = 0
  /\ firstFate = "none"
  /\ micForwarded = FALSE
  /\ lastNet = NoMessage
  /\ lastSent = NoMessage

SolverIdle ==
  /\ ssolver = "none"
  /\ schained = FALSE
  /\ spage = [replies |-> 0, slots |-> 0]
  /\ spc = "idle"
  /\ startEntry = [status |-> "none", tree |-> EmptyCache]
  /\ toFill = <<>>
  /\ useCache = FALSE
  /\ cacheWriteNeeded = FALSE
  /\ fillSource = "none"
  /\ filled = <<>>
  /\ aiCalls = 0
  /\ ssubmitted = FALSE
  /\ harvest = <<>>
  /\ sresult = "none"
  /\ declined = "none"

ChainIdle ==
  /\ cpc = "idle"
  /\ subTaskIndex = 0
  /\ tasksToCache = <<>>
  /\ cstrategy = "none"
  /\ dispatchLog = <<>>
  /\ settled = {}
  /\ nextClicks = 0
  /\ chainEnd = "none"
  /\ failedAt = -1
  /\ chainLog = <<>>
  /\ rateLimitSeen = FALSE
  /\ declinedAt = -1
  /\ aiSolved = {}
  /\ sharedContext = <<>>
  /\ passedContext = <<>>
  /\ materialSeen = <<>>

\* no call of execute was made
NoInvocation ==
  [call |-> "none", ran |-> FALSE, chained |-> FALSE, ok |-> FALSE, submitted |-> FALSE,
   error |-> FALSE, next |-> "none"]

DispatchIdle ==
  /\ dpc = "idle"
  /\ dpage = {}
  /\ dlist = <<>>
  /\ dpos = 0
  /\ checked = <<>>
  /\ instantiated = <<>>
  /\ daff = "none"
  /\ invocation = NoInvocation

RolePlayIdle ==
  /\ rpc = "idle"
  /\ rpChained = FALSE
  /\ myTurns = 0
  /\ currentRetry = 0
  /\ rturn = 0
  /\ turnScores = <<>>
  /\ prevScores = <<>>
  /\ rpResult = "none"
  /\ rpSubmitted = FALSE

VisitIdle ==
  /\ hasFetched = "undef"
  /\ visitLog = <<>>

ReplayIdle ==
  replay = [pc |-> "idle", pending |-> <<>>, harvests |-> <<>>, pos |-> 0,
            current_analysis_index |-> 0, screen |-> 0, visited |-> <<>>, end |-> "none"]

RecordingIdle ==
  /\ tmode = "oneshot"
  /\ tpc = "idle"
  /\ clock = 0
  /\ duration = 0
  /\ armedAt = -1
  /\ sleepFrom = -1
  /\ substitutedAt = -1
  /\ stoppedAt = -1

CfgIdle ==
  cfg = [FORCE_AI |-> FlagUndef, IS_AUTO_MODE |-> "off", AUTO_MODE_NO_CONFIRM |-> FlagUndef,
         FAST_CACHE_MODE |-> FlagUndef]

VoiceIdle ==
  /\ vsolver = "none"
  /\ vchained = FALSE
  /\ vpc = "idle"
  /\ nUtter = 0
  /\ utter = 0
  /\ attempt = 0
  /\ lastScore = 0
  /\ attemptLog = <<>>
  /\ logOf = 0
  /\ synthCalls = <<>>
  /\ verdictCalls = <<>>
  /\ outcome = <<>>
  /\ shouldAbort = FALSE
  /\ vresult = "none"
  /\ vsubmitted = FALSE

-----------------------------------------------------------------------------
(* Inputs of the cache specification *)

CacheKeys == {<<"a">>, <<"b">>, <<"a", "b">>, <<"a", "type">>, <<"a", "questions">>}

CacheTags == {"single_choice", "fill_in_the_blank"}

StrAnswers(xs) == [shape |-> "strs", strs |-> xs, dicts |-> <<>>]
DictAnswers(ds) == [shape |-> "dicts", strs |-> <<>>, dicts |-> ds]
QA(q, x) == [question_text |-> q, correct_answer |-> x]

CacheAnswers ==
  { StrAnswers(<<>>), StrAnswers(<<"A">>), StrAnswers(<<"A", "B">>), StrAnswers(<<"B", "A">>),
    DictAnswers(<<QA("Q1", "A")>>), DictAnswers(<<QA("Q1", "B"), QA("Q2", "A")>>) }

NoCall == [op |-> "none", k |-> <<>>, t |-> "", a |-> StrAnswers(<<>>), raised |-> FALSE]
NoResult == [status |-> "none", tree |-> EmptyCache]

\* the entry {"type": t, "answers": a} the cache contract describes
Entry(t, xs) == (<<>> :> DictNode) @@ (<<"type">> :> StrNode(t)) @@ (<<"answers">> :> ListNode(xs))

\* a cache file in the documented shape: {"a": {"type": ..., "answers": ["A"]}}
DocAnswers ==
  (<<>> :> DictNode) @@ (<<"a">> :> DictNode) @@ (<<"a", "type">> :> StrNode("single_choice"))
    @@ (<<"a", "answers">> :> ListNode(<<"A">>))

\* a cache file whose content is a JSON document that is not an object: []
DocList == (<<>> :> ListNode(<<>>))

\* the cache file found at start-up: missing, or one document
CacheFiles == {<<>>, <<DocAnswers>>, <<DocList>>}

CacheStart ==
  /\ file \in CacheFiles
  /\ cache = _load_cache(file)
  /\ opCount = 0
  /\ lastCall = NoCall
  /\ prevCall = NoCall
  /\ getResult = NoResult
  /\ savedLog = <<>>
  /\ repeated = FALSE

\* one call of save_task_page_answers
SaveCall ==
  /\ opCount < MaxOps
  /\ \E k \in CacheKeys, t \in CacheTags, a \in CacheAnswers :
       LET r == save_task_page_answers(cache, file, k, t, a)
           call == [op |-> "save", k |-> k, t |-> t, a |-> a, raised |-> r.raised]
       IN  /\ cache' = r.c
           /\ file' = r.f
           /\ prevCall' = lastCall
           /\ lastCall' = call
           /\ repeated' = (lastCall.op = "save" /\ lastCall.k = k /\ lastCall.t = t /\ lastCall.a = a)
           /\ savedLog' = [x \in (DOMAIN savedLog) \cup {k} |-> IF x = k THEN call ELSE savedLog[x]]
  /\ opCount' = opCount + 1
  /\ UNCHANGED getResult
  /\ UNCHANGED nonCacheVars

\* one call of get_task_page_cache
GetCall ==
  /\ opCount < MaxOps
  /\ \E k \in CacheKeys :
       LET r == get_task_page_cache(cache, k)
       IN  /\ getResult' = [status |-> r.status,
                            tree |-> IF r.status = "found" THEN SubTree(cache, r.path) ELSE EmptyCache]
           /\ prevCall' = lastCall
           /\ lastCall' = [op |-> "get", k |-> k, t |-> "", a |-> StrAnswers(<<>>), raised |-> r.status = "raise"]
  /\ opCount' = opCount + 1
  /\ repeated' = FALSE
  /\ UNCHANGED <<cache, file, savedLog>>
  /\ UNCHANGED nonCacheVars

\* a call of save_task_page_answers during which the process dies inside
\* _save_cache; the next process starts with CacheService.__init__
SaveCrash ==
  /\ opCount < MaxOps
  /\ \E k \in CacheKeys, t \in CacheTags, a \in CacheAnswers :
       LET r == save_task_page_answers(cache, file, k, t, a)
       IN  /\ ~r.raised
           /\ \E left \in _save_cache_crash(r.c, file) :
                /\ file' = left
                /\ cache' = _load_cache(left)
           /\ prevCall' = lastCall
           /\ lastCall' = [op |-> "crash", k |-> k, t |-> "", a |-> StrAnswers(<<>>), raised |-> FALSE]
  /\ opCount' = opCount + 1
  /\ repeated' = FALSE
  /\ savedLog' = <<>>
  /\ UNCHANGED getResult
  /\ UNCHANGED nonCacheVars

CacheNext == SaveCall \/ GetCall \/ SaveCrash

CacheInit == CacheStart /\ CfgIdle /\ VoiceIdle /\ SpliceIdle /\ SolverIdle /\ ChainIdle /\ DispatchIdle /\ RolePlayIdle /\ RecordingIdle /\ VisitIdle /\ ReplayIdle

SpecCache == CacheInit /\ [][CacheNext]_vars

\* the view of a key a caller of get_task_page_cache has: outcome and value
GetView(c, k) ==
  LET r == get_task_page_cache(c, k)
  IN  [status |-> r.status, tree |-> IF r.status = "found" THEN SubTree(c, r.path) ELSE EmptyCache]

\* C5: save(k, t, a) with a list of answer strings followed by get(k)
\* returns an entry whose type is t and whose 'answers' list is a, in order.
C5_RoundTrip ==
  (lastCall.op = "get" /\ prevCall.op = "save" /\ prevCall.k = lastCall.k /\ prevCall.a.shape = "strs"
     /\ prevCall.a.strs # <<>>)
    => /\ getResult.status = "found"
       /\ <<"type">> \in DOMAIN getResult.tree
       /\ getResult.tree[<<"type">>] = StrNode(prevCall.t)
       /\ <<"answers">> \in DOMAIN getResult.tree
       /\ getResult.tree[<<"answers">>] = ListNode(prevCall.a.strs)

\* C6: a save under a key k2 never changes, hides or breaks what get(k1)
\* returns for a different key k1 under which an entry was saved.
C6_NoCollision ==
  [][\A k1 \in DOMAIN savedLog :
       (savedLog[k1].raised = FALSE /\ opCount' = opCount + 1
          /\ lastCall'.op = "save" /\ lastCall'.k # k1)
         => GetView(cache', k1) = GetView(cache, k1)]_vars

FreshField(k, t, a, name) ==
  LET c == save_task_page_answers(EmptyCache, <<>>, k, t, a).c
  IN  GetView(c, Append(k, name))

\* C21: after two completed saves under the same key, save(k, t1, a1) then
\* save(k, t2, a2), the entry at k has type t2 and holds the answers of a2
\* and nothing else: its answer data is what save(k, t2, a2) alone stores.
C21_SaveOverwrites ==
  (/\ lastCall.op = "save" /\ prevCall.op = "save"
   /\ lastCall.k = prevCall.k
   /\ ~lastCall.raised /\ ~prevCall.raised)
    => /\ GetView(cache, Append(lastCall.k, "type"))
            = FreshField(lastCall.k, lastCall.t, lastCall.a, "type")
       /\ GetView(cache, Append(lastCall.k, "questions"))
            = FreshField(lastCall.k, lastCall.t, lastCall.a, "questions")

\* C22: after construction, and after any calls, the in-memory cache is a
\* mapping (a dict at the root), whatever the cache file held at start-up.
C22_CacheIsMapping == cache[<<>>].kind = "dict"

\* C35: a call of save_task_page_answers that raises leaves the in-memory
\* cache and the cache file exactly as they were before the call, and a get
\* on its key returns afterwards what it returned before.
C35_FailedSaveLeavesNoTrace ==
  [][(lastCall'.op = "save" /\ lastCall'.raised /\ opCount' = opCount + 1)
       => /\ cache' = cache
          /\ file' = file
          /\ GetView(cache', lastCall'.k) = GetView(cache, lastCall'.k)]_vars

\* C12: when the process dies inside a save, the file it leaves behind
\* reloads to a cache in which every key committed by a completed save of
\* that process (other than the in-flight key and the keys on its path) has
\* the entry the file held before the crash.
C12_CrashKeepsCommitted ==
  [][lastCall'.op = "crash"
       => \A k1 \in DOMAIN savedLog :
            (savedLog[k1].raised = FALSE /\ ~IsPrefix(k1, lastCall'.k) /\ ~IsPrefix(lastCall'.k, k1))
              => GetView(_load_cache(file'), k1) = GetView(_load_cache(file), k1)]_vars

-----------------------------------------------------------------------------
(* Voice solvers and the score ladder                                      *)
(* BaseVoiceStrategy._execute_single_voice_task, ReadAloudStrategy.execute,*)
(* QAVoiceStrategy.execute                                                 *)

\* len(RETRY_PARAMS)
NumProfiles == 3

\* `if last_score >= 85` (line 144)
ExcellentScore == 85
\* `if last_score < 60` (line 148)
HardFailScore == 60
\* `last_score < 80` (line 161)
AcceptableScore == 80

\* scores the page can show
Scores == {0, 59, 60, 79, 80, 84, 85}

\* an attempt that produced no score
NoScore == -1

ScoreReadDefaultsHigh(shown) == IF shown = NoScore THEN ExcellentScore ELSE shown

\* _wait_for_and_get_score: the number the page shows, 0 when no score
\* appears in time or its text cannot be parsed (lines 233-254)
_wait_for_and_get_score(shown) == IF shown = NoScore THEN 0 ELSE shown

VoiceSolvers == {"read_aloud", "qa_voice"}

IsExcellentStrict(sc) == sc > ExcellentScore
IsExcellent(sc) == sc >= ExcellentScore

IsHardFailLow(sc) == sc < HardFailScore - 1
IsHardFail(sc) == sc < HardFailScore

\* the decision after the for loop (lines 161-166)
ExhaustedOutcome(last) == IF last < AcceptableScore THEN "abort" ELSE "accept"

AttemptRec(tts, sc) == [tts |-> tts, score |-> sc]

VoiceStart ==
  /\ vsolver \in VoiceSolvers
  /\ vchained \in BOOLEAN
  /\ nUtter \in 0..MaxUtterances
  /\ vpc = "prepare"
  /\ utter = 1
  /\ attempt = 0
  /\ lastScore = 0
  /\ attemptLog = <<>>
  /\ logOf = 0
  /\ synthCalls = [u \in 1..nUtter |-> 0]
  /\ verdictCalls = [u \in 1..nUtter |-> 0]
  /\ outcome = [u \in 1..nUtter |-> "running"]
  /\ shouldAbort = FALSE
  /\ vresult = "none"
  /\ vsubmitted = FALSE

\* the flags a voice solver reads
CfgVoiceStart ==
  cfg \in [FORCE_AI : {FlagUndef}, IS_AUTO_MODE : AutoModeValues,
           AUTO_MODE_NO_CONFIRM : UnassignedFlagValues, FAST_CACHE_MODE : {"off"}]

\* the per-utterance steps before the ladder: the body of the for loop of
\* execute up to the call of _execute_single_voice_task
\*   read_aloud lines 53-77, qa_voice lines 106-165
VoicePrepare ==
  /\ vpc = "prepare"
  /\ IF utter > nUtter
       THEN /\ vpc' = "finish"
            /\ UNCHANGED <<shouldAbort, attempt, lastScore, attemptLog, logOf>>
       ELSE \E ok \in BOOLEAN :
              \* ok: the text was found, the user confirmed the prompt and the
              \* AI returned an answer; qa_voice reads the confirmation flags
              IF ok /\ (vsolver = "qa_voice" => ConfirmGate(cfg) # "raise")
                THEN /\ vpc' = "synth"
                     /\ attempt' = 0
                     /\ lastScore' = 0
                     /\ attemptLog' = <<>>
                     /\ logOf' = utter
                     /\ UNCHANGED shouldAbort
                ELSE /\ shouldAbort' = TRUE
                     /\ vpc' = "finish"
                     /\ UNCHANGED <<attempt, lastScore, attemptLog, logOf>>
  /\ UNCHANGED <<vsolver, vchained, nUtter, utter, synthCalls, verdictCalls, outcome, vresult, vsubmitted>>
  /\ UNCHANGED <<cfg, nonVoiceVars>>

\* the ladder's verdict for the current utterance reaches the solver:
\* abort -> should_abort_page = True; break     accept -> next container
LadderReturn(res, calls) ==
  /\ outcome' = [outcome EXCEPT ![utter] = res]
  /\ verdictCalls' = [verdictCalls EXCEPT ![utter] = calls]
  /\ IF res = "abort"
       THEN /\ shouldAbort' = TRUE
            /\ vpc' = "finish"
            /\ UNCHANGED utter
       ELSE /\ utter' = utter + 1
            /\ vpc' = "prepare"
            /\ UNCHANGED shouldAbort

LadderRepeatsProfile(last, calls) ==
  /\ vpc' = "synth"
  /\ UNCHANGED <<attempt, outcome, verdictCalls, shouldAbort, utter>>

\* the loop moves on to the next entry of retry_params, or ends (lines 161-166)
LadderContinue(last, calls) ==
  IF attempt + 1 < NumProfiles
    THEN /\ attempt' = attempt + 1
         /\ vpc' = "synth"
         /\ UNCHANGED <<outcome, verdictCalls, shouldAbort, utter>>
    ELSE /\ attempt' = attempt + 1
         /\ LadderReturn(ExhaustedOutcome(last), calls)

\* text_to_wav and wave.open (lines 117-126)
LadderSynthesize ==
  /\ vpc = "synth"
  /\ attempt < NumProfiles
  /\ synthCalls' = [synthCalls EXCEPT ![utter] = @ + 1]
  /\ \E tts \in {"ok", "none", "raise"} :
       CASE tts = "ok" ->
              /\ attemptLog' = Append(attemptLog, AttemptRec("ok", NoScore))
              /\ vpc' = "record"
              /\ UNCHANGED <<attempt, lastScore, outcome, verdictCalls, shouldAbort, utter>>
         [] tts = "none" ->       \* `continue`: last_score keeps its value
              /\ attemptLog' = Append(attemptLog, AttemptRec("none", NoScore))
              /\ UNCHANGED lastScore
              /\ LadderContinue(lastScore, synthCalls[utter] + 1)
         [] tts = "raise" ->      \* except: last_score = 0
              /\ attemptLog' = Append(attemptLog, AttemptRec("raise", NoScore))
              /\ lastScore' = 0
              /\ LadderContinue(0, synthCalls[utter] + 1)
  /\ UNCHANGED <<vsolver, vchained, nUtter, logOf, vresult, vsubmitted>>
  /\ UNCHANGED <<cfg, nonVoiceVars>>

\* inject, record, wait, stop, read the score, decide (lines 128-159)
LadderRecord ==
  /\ vpc = "record"
  /\ LET n == Len(attemptLog)
     IN \/ \E shown \in Scores \cup {NoScore} :
           LET sc == _wait_for_and_get_score(shown)
           IN
             /\ attemptLog' = [attemptLog EXCEPT ![n].score = shown,
                                                 ![n].tts = IF shown = NoScore THEN "noread" ELSE @]
             /\ lastScore' = sc
             /\ IF IsExcellent(sc)
                  THEN /\ LadderReturn("accept", synthCalls[utter])
                       /\ UNCHANGED attempt
                ELSE IF IsHardFail(sc)
                  THEN /\ LadderReturn("abort", synthCalls[utter])
                       /\ UNCHANGED attempt
                ELSE LadderContinue(sc, synthCalls[utter])
        \/ \* an exception while injecting, clicking or waiting: last_score = 0
           /\ attemptLog' = [attemptLog EXCEPT ![n].tts = "error"]
           /\ lastScore' = 0
           /\ LadderContinue(0, synthCalls[utter])
  /\ UNCHANGED <<vsolver, vchained, nUtter, logOf, synthCalls, vresult, vsubmitted>>
  /\ UNCHANGED <<cfg, nonVoiceVars>>

\* after the for loop of execute: read_aloud lines 94-116, qa_voice 178-197
VoiceFinish ==
  /\ vpc = "finish"
  /\ vpc' = "done"
  /\ IF shouldAbort
       THEN vresult' = "false" /\ UNCHANGED vsubmitted
     ELSE IF vchained
       THEN vresult' = "true" /\ UNCHANGED vsubmitted
     ELSE IF ConfirmGate(cfg) = "raise"
       THEN vresult' = "raised" /\ UNCHANGED vsubmitted
     ELSE \E confirm \in BOOLEAN :
            IF ConfirmGate(cfg) = "ask" /\ ~confirm
              THEN vresult' = "false" /\ UNCHANGED vsubmitted
              \* handle_rate_limit_modal catches its own RateLimitException
              \* (`except Exception`, driver_service line 703)
              ELSE vsubmitted' = TRUE /\ vresult' = "true"
  /\ UNCHANGED <<vsolver, vchained, nUtter, utter, attempt, lastScore, attemptLog, logOf,
                 synthCalls, verdictCalls, outcome, shouldAbort>>
  /\ UNCHANGED <<cfg, nonVoiceVars>>

CacheIdle ==
  /\ file = <<>>
  /\ cache = EmptyCache
  /\ opCount = 0
  /\ lastCall = NoCall
  /\ prevCall = NoCall
  /\ getResult = NoResult
  /\ savedLog = <<>>
  /\ repeated = FALSE

LadderInit == VoiceStart /\ CfgVoiceStart /\ CacheIdle /\ SpliceIdle /\ SolverIdle /\ ChainIdle /\ DispatchIdle /\ RolePlayIdle /\ RecordingIdle /\ VisitIdle /\ ReplayIdle

LadderNext == VoicePrepare \/ LadderSynthesize \/ LadderRecord \/ VoiceFinish

SpecLadder == LadderInit /\ [][LadderNext]_vars

\* the best score read in the first i attempts of a log
RECURSIVE MaxScore(_, _)
MaxScore(log, i) ==
  IF i = 0 THEN NoScore
  ELSE LET m == MaxScore(log, i - 1)
       IN  IF log[i].score > m THEN log[i].score ELSE m

\* C2: an attempt that scores >= 85 is the last attempt of its utterance and
\* the ladder returns accept (no page abort); once the ladder has returned
\* for an utterance no further synthesis call is made for it.
C2_StopAtExcellent ==
  /\ \A i \in 1..Len(attemptLog) :
       attemptLog[i].score >= ExcellentScore
         => (i = Len(attemptLog) /\ outcome[logOf] = "accept")
  /\ \A u \in DOMAIN outcome :
       outcome[u] # "running" => synthCalls[u] = verdictCalls[u]

\* C2 witness: the ladder stopped at a third attempt that scored >= 85 and
\* the solver went on to the end
C2_Witness ==
  /\ Len(attemptLog) = 3
  /\ attemptLog[1].score \in HardFailScore..(ExcellentScore - 1)
  /\ attemptLog[2].score \in HardFailScore..(ExcellentScore - 1)
  /\ attemptLog[3].score >= ExcellentScore
  /\ outcome[logOf] = "accept"
  /\ vpc = "done"

\* C3: an attempt that scores < 60 is the last attempt of its utterance, the
\* ladder signals page abort, no later utterance of the page is processed
\* and the solver signals failure without submitting.
C3_HardFail ==
  \A i \in 1..Len(attemptLog) :
    (attemptLog[i].score # NoScore /\ attemptLog[i].score < HardFailScore)
      => /\ i = Len(attemptLog)
         /\ outcome[logOf] = "abort"
         /\ shouldAbort
         /\ utter = logOf
         /\ \A v \in DOMAIN outcome : v > logOf => (outcome[v] = "running" /\ synthCalls[v] = 0)
         /\ ~vsubmitted
         /\ vresult \in {"none", "false"}
         /\ (vpc = "done" => vresult = "false")

\* C3 witness: a second attempt scored < 60 while a profile was left and a
\* further utterance was waiting; the solver has returned
C3_Witness ==
  /\ nUtter = 2
  /\ logOf = 1
  /\ Len(attemptLog) = 2
  /\ attemptLog[1].score \in HardFailScore..(ExcellentScore - 1)
  /\ attemptLog[2].score \in 0..(HardFailScore - 1)
  /\ vpc = "done"

\* C4: when all profiles were tried and each attempt scored in 60..84, the
\* utterance is accepted iff the best score of its attempts is >= 80.
C4_BestScoreDecides ==
  (/\ logOf >= 1
   /\ outcome[logOf] # "running"
   /\ Len(attemptLog) = NumProfiles
   /\ \A i \in 1..NumProfiles :
        attemptLog[i].score \in HardFailScore..(ExcellentScore - 1))
    => (outcome[logOf] = "accept" <=> MaxScore(attemptLog, NumProfiles) >= AcceptableScore)

\* every step of a solver is a sequence of awaited calls that return or time
\* out (wait_for timeout=5000, the score wait timeout=20000), so a solver
\* that can take a step takes it
SpecLadderFair == SpecLadder /\ WF_vars(LadderNext)

\* the ladder is working on an utterance
InLadder == vpc \in {"synth", "record"}

\* C33: the i-th attempt of an utterance uses the i-th profile of the list
\* (attempts and synthesis calls are counted together, never more than one per
\* profile); an attempt that scores in 60..84 is followed by the next profile
\* when one remains; and the ladder always returns, with accept or page-abort,
\* whatever the scores, synthesis failures and internal errors.
C33_LadderOrder ==
  /\ [](InLadder =>
          /\ attempt < NumProfiles
          /\ Len(attemptLog) = (IF vpc = "synth" THEN attempt ELSE attempt + 1)
          /\ synthCalls[utter] = Len(attemptLog))
  /\ [](\A u \in DOMAIN synthCalls : synthCalls[u] <= NumProfiles)
  /\ [][(/\ vpc = "record"
          /\ Len(attemptLog') = Len(attemptLog)
          /\ attemptLog'[Len(attemptLog)].score \in HardFailScore..(ExcellentScore - 1)
          /\ attempt + 1 < NumProfiles)
           => (vpc' = "synth" /\ attempt' = attempt + 1 /\ utter' = utter /\ outcome' = outcome)]_vars
  /\ [](~InLadder /\ logOf >= 1 => outcome[logOf] \in {"accept", "abort"})
  /\ (InLadder ~> ~InLadder)

\* C33 witness: synthesis failed for the first profile, the second attempt
\* raised an internal error, the third scored in 60..84, and the ladder
\* returned
C33_Witness ==
  /\ Len(attemptLog) = NumProfiles
  /\ attemptLog[1].tts = "none"
  /\ attemptLog[2].tts \in {"raise", "error"}
  /\ attemptLog[3].score \in HardFailScore..(ExcellentScore - 1)
  /\ synthCalls[logOf] = NumProfiles
  /\ outcome[logOf] \in {"accept", "abort"}

\* C36: an utterance the ladder accepted has an attempt for which the page
\* showed a score >= 80 and no attempt for which it showed a score < 60;
\* attempts without a page score (synthesis failed, internal error, score
\* not read) do not by themselves lead to acceptance.
C36_AcceptNeedsPageScore ==
  (logOf >= 1 /\ outcome[logOf] = "accept")
    => /\ \E i \in 1..Len(attemptLog) : attemptLog[i].score >= AcceptableScore
       /\ \A i \in 1..Len(attemptLog) :
            attemptLog[i].score = NoScore \/ attemptLog[i].score >= HardFailScore

\* C36 witness: the first attempt raised, the second scored in 80..84, the
\* synthesis of the third failed, and the utterance was accepted
C36_Witness ==
  /\ Len(attemptLog) = NumProfiles
  /\ attemptLog[1].tts \in {"raise", "error"}
  /\ attemptLog[2].score \in AcceptableScore..(ExcellentScore - 1)
  /\ attemptLog[3].tts = "none"
  /\ outcome[logOf] = "accept"

-----------------------------------------------------------------------------
(* The voice-scoring interceptor: the scripts BaseVoiceStrategy evaluates  *)
(* in the page (_install_persistent_hijack, _set_persistent_audio_payload, *)
(* _prepare_one_shot_injection, _cleanup_one_shot_injection,               *)
(* _clear_persistent_audio_payload) and the page's use of WebSocket.       *)

\* synthetic audio generated by text_to_wav (base64 text, never empty)
Payloads == {"p1", "p2"}

\* contents of the control messages the page sends
TextContents == {"t1", "t2"}

TextMsg(t) == [kind |-> "text", p |-> t]
MicFrame == [kind |-> "mic", p |-> Unset]
Synthetic(p) == [kind |-> "synthetic", p |-> p]
Dropped == [kind |-> "none", p |-> Unset]

IsBinary(data) == data.kind \in {"mic", "synthetic"}

\* the send wrappers `new window.WebSocket(url)` puts on a socket, innermost
\* first: each installed constructor builds the socket with the constructor
\* it saved and wraps send only if the url includes 'speech.unipus.cn'
CtorLayers(w, speech) ==
  IF ~speech THEN <<>>
  ELSE IF w.WebSocket = "native" THEN <<>>
  ELSE IF w.WebSocket = "persist" THEN <<"persist">>
  ELSE IF w.originalWebSocketOneShot = "persist" THEN <<"persist", "oneshot">>
  ELSE <<"oneshot">>

\* ws.send of the one-shot script (lines 198-223)
\* Writes the flag even after cleanup deleted it; atob of a deleted payload
\* throws and the catch swallows it
OneShotSend(data, w) ==
  IF ~IsBinary(data) THEN [out |-> data, w |-> w]
  ELSE IF w.ttsAudioSentOneShot # "true"
    THEN LET w1 == [w EXCEPT !.ttsAudioSentOneShot = "true"]
         IN  IF w.injectedAudioB64OneShot = Unset
               THEN [out |-> Dropped, w |-> w1]
               ELSE [out |-> Synthetic(w.injectedAudioB64OneShot), w |-> w1]
  ELSE [out |-> Dropped, w |-> w]

\* a wrapper that lets nothing through while no payload is set
PersistentSendBlocksUnarmed(data, w) ==
  IF w.ai_audio_payload # Unset
    THEN IF IsBinary(data)
           THEN [out |-> Synthetic(w.ai_audio_payload),
                 w |-> [w EXCEPT !.ai_audio_payload = Unset]]
           ELSE [out |-> data, w |-> w]
  ELSE [out |-> Dropped, w |-> w]

\* ws.send of the persistent script (lines 62-91)
PersistentSend(data, w) ==
  IF ~IsBinary(data) THEN [out |-> data, w |-> w]
  ELSE IF w.ai_audio_payload # Unset
    THEN [out |-> Synthetic(w.ai_audio_payload),
          w |-> [w EXCEPT !.ai_audio_payload = Unset]]
  ELSE [out |-> Dropped, w |-> w]

\* a call of ws.send(data): the outermost wrapper first, each wrapper hands
\* what it lets through to the send it saved (originalSend.call)
RECURSIVE SendThrough(_, _, _, _)
SendThrough(layers, i, data, w) ==
  IF i = 0 \/ data.kind = "none" THEN [out |-> data, w |-> w]
  ELSE LET r == IF layers[i] = "oneshot" THEN OneShotSend(data, w)
                ELSE PersistentSend(data, w)
       IN  SendThrough(layers, i - 1, r.out, r.w)

WsSend(c, data, w) == SendThrough(conns[c].layers, Len(conns[c].layers), data, w)

\* the wrapper the current attempt relies on
AttemptLayer == IF sphase = "oneshot" THEN "oneshot" ELSE IF sphase = "turn" THEN "persist" ELSE "none"

HasLayer(c, l) == \E i \in 1..Len(conns[c].layers) : conns[c].layers[i] = l

InAttempt == sphase \in {"oneshot", "turn"}

\* the sockets the page holds when an attempt begins were opened for an
\* earlier recording; their send wrappers stay on them (ws.send is replaced
\* on the socket object, lines 64 and 198)
MarkStale(cs) == [i \in 1..Len(cs) |-> [cs[i] EXCEPT !.stale = TRUE]]

ResetAttempt ==
  /\ binSeen' = 0
  /\ binUnarmed' = 0
  /\ substituted' = 0
  /\ firstFate' = "none"

\* page.evaluate(injection_script) (base_voice line 130, script lines 182-228)
OneShotInstall ==
  /\ sphase = "idle"
  /\ \E p \in Payloads :
       LET restored == IF win.originalWebSocketOneShot # Unset
                         THEN win.originalWebSocketOneShot ELSE win.WebSocket
       IN  /\ win' = [win EXCEPT !.injectedAudioB64OneShot = p,
                                 !.ttsAudioSentOneShot = "false",
                                 !.originalWebSocketOneShot = restored,
                                 !.WebSocket = "oneshot"]
           /\ armedPayload' = p
  /\ sphase' = "oneshot"
  /\ armed' = TRUE
  /\ ResetAttempt
  /\ conns' = MarkStale(conns)
  /\ UNCHANGED <<micForwarded, lastNet, lastSent>>
  /\ UNCHANGED nonSpliceVars

\* a cleanup that restores the constructor and leaves the payload behind
_cleanup_one_shot_keep_payload(w) ==
  IF w.originalWebSocketOneShot # Unset
    THEN [w EXCEPT !.WebSocket = w.originalWebSocketOneShot,
                   !.originalWebSocketOneShot = Unset,
                   !.ttsAudioSentOneShot = Unset]
    ELSE w

\* the script of _cleanup_one_shot_injection (lines 261-269)
_cleanup_one_shot_injection(w) ==
  IF w.originalWebSocketOneShot # Unset
    THEN [w EXCEPT !.WebSocket = w.originalWebSocketOneShot,
                   !.originalWebSocketOneShot = Unset,
                   !.injectedAudioB64OneShot = Unset,
                   !.ttsAudioSentOneShot = Unset]
    ELSE w

\* the script of _clear_persistent_audio_payload (line 279):
\* delete window.ai_audio_payload
_clear_persistent_audio_payload(w) == [w EXCEPT !.ai_audio_payload = Unset]

\* the finally of each attempt of _execute_single_voice_task (line 159)
OneShotCleanup ==
  /\ sphase = "oneshot"
  /\ win' = _cleanup_one_shot_injection(win)
  /\ sphase' = "idle"
  /\ UNCHANGED <<conns, armed, armedPayload, binSeen, binUnarmed, substituted, firstFate,
                 micForwarded, lastNet, lastSent>>
  /\ UNCHANGED nonSpliceVars

\* RolePlayStrategy.execute line 39: _install_persistent_hijack (lines 39-100)
PersistentInstall ==
  /\ sphase = "idle"
  /\ win' = IF win.isAiWebSocketHijackInstalled THEN win
            ELSE [win EXCEPT !.WebSocket = "persist", !.isAiWebSocketHijackInstalled = TRUE]
  /\ sphase' = "roleplay"
  /\ UNCHANGED <<conns, armed, armedPayload, binSeen, binUnarmed, substituted, firstFate,
                 micForwarded, lastNet, lastSent>>
  /\ UNCHANGED nonSpliceVars

\* one turn of _execute_and_evaluate_turns begins (role_play line 157)
TurnBegin ==
  /\ sphase = "roleplay"
  /\ sphase' = "turn"
  /\ armed' = FALSE
  /\ armedPayload' = Unset
  /\ ResetAttempt
  /\ conns' = MarkStale(conns)
  /\ UNCHANGED <<win, micForwarded, lastNet, lastSent>>
  /\ UNCHANGED nonSpliceVars

\* _set_persistent_audio_payload (lines 169-175)
SetPayload ==
  /\ sphase = "turn"
  /\ ~armed
  /\ \E p \in Payloads :
       /\ win' = [win EXCEPT !.ai_audio_payload = p]
       /\ armedPayload' = p
  /\ armed' = TRUE
  /\ UNCHANGED <<conns, sphase, binSeen, binUnarmed, substituted, firstFate, micForwarded, lastNet, lastSent>>
  /\ UNCHANGED nonSpliceVars

\* the finally of each turn (role_play line 189); the turn may have failed
\* before line 167 armed the payload, or ended with the payload unused
ClearPayload ==
  /\ sphase = "turn"
  /\ win' = _clear_persistent_audio_payload(win)
  /\ sphase' = "roleplay"
  /\ UNCHANGED <<conns, armed, armedPayload, binSeen, binUnarmed, substituted, firstFate,
                 micForwarded, lastNet, lastSent>>
  /\ UNCHANGED nonSpliceVars

\* RolePlayStrategy.execute returns (role_play lines 53, 64, 81)
RolePlayReturn ==
  /\ sphase = "roleplay"
  /\ sphase' = "idle"
  /\ UNCHANGED <<win, conns, armed, armedPayload, binSeen, binUnarmed, substituted, firstFate,
                 micForwarded, lastNet, lastSent>>
  /\ UNCHANGED nonSpliceVars

\* between two solver runs the document may be replaced: navigate_to_task
\* calls page.goto only when the url differs (driver_service lines 430-432)
PageLoad ==
  /\ sphase = "idle"
  /\ win' = FreshWindow
  /\ conns' = <<>>
  /\ UNCHANGED <<sphase, armed, armedPayload, binSeen, binUnarmed, substituted, firstFate,
                 micForwarded, lastNet, lastSent>>
  /\ UNCHANGED nonSpliceVars

\* the page runs `new WebSocket(url)`
PageOpenSocket ==
  /\ Len(conns) < MaxConns
  /\ \E speech \in BOOLEAN :
       conns' = Append(conns, [layers |-> CtorLayers(win, speech), speech |-> speech,
                               stale |-> FALSE])
  /\ UNCHANGED <<win, sphase, armed, armedPayload, binSeen, binUnarmed, substituted, firstFate,
                 micForwarded, lastNet, lastSent>>
  /\ UNCHANGED nonSpliceVars

\* the page runs ws.send(text)
PageSendText ==
  /\ \E c \in 1..Len(conns), t \in TextContents :
       LET r == WsSend(c, TextMsg(t), win)
       IN  /\ win' = r.w
           /\ lastNet' = [conn |-> c, kind |-> r.out.kind, p |-> r.out.p]
           /\ lastSent' = [conn |-> c, kind |-> "text", p |-> t]
  /\ UNCHANGED <<conns, sphase, armed, armedPayload, binSeen, binUnarmed, substituted, firstFate,
                 micForwarded>>
  /\ UNCHANGED nonSpliceVars

\* the page runs ws.send(chunk) with a chunk of recorded microphone audio
PageSendBinary ==
  /\ \E c \in 1..Len(conns) :
       LET r == WsSend(c, MicFrame, win)
           spliced == conns[c].layers # <<>>
           counted == InAttempt /\ HasLayer(c, AttemptLayer)
       IN  /\ counted => binSeen + binUnarmed < MaxFrames
           /\ win' = r.w
           /\ lastNet' = [conn |-> c, kind |-> r.out.kind, p |-> r.out.p]
           /\ lastSent' = [conn |-> c, kind |-> "mic", p |-> Unset]
           /\ micForwarded' = (micForwarded \/ (spliced /\ r.out.kind = "mic"))
           /\ binSeen' = IF counted /\ armed THEN binSeen + 1 ELSE binSeen
           /\ binUnarmed' = IF counted /\ ~armed THEN binUnarmed + 1 ELSE binUnarmed
           /\ substituted' = IF InAttempt /\ spliced /\ r.out.kind = "synthetic"
                               THEN substituted + 1 ELSE substituted
           /\ firstFate' = IF counted /\ armed /\ binSeen = 0
                             THEN (IF r.out.kind = "synthetic" /\ r.out.p = armedPayload
                                     THEN "replaced" ELSE "lost")
                             ELSE firstFate
  /\ UNCHANGED <<conns, sphase, armed, armedPayload>>
  /\ UNCHANGED nonSpliceVars

SpliceInit == SpliceIdle /\ CfgIdle /\ CacheIdle /\ VoiceIdle /\ SolverIdle /\ ChainIdle /\ DispatchIdle /\ RolePlayIdle /\ RecordingIdle /\ VisitIdle /\ ReplayIdle

SpliceNext ==
  \/ OneShotInstall \/ OneShotCleanup
  \/ PersistentInstall \/ TurnBegin \/ SetPayload \/ ClearPayload \/ RolePlayReturn
  \/ PageLoad \/ PageOpenSocket \/ PageSendText \/ PageSendBinary

SpecSplice == SpliceInit /\ [][SpliceNext]_vars

\* C1: within one attempt on spliced channels: the first binary frame sent
\* after the payload is armed reaches the network as the whole armed
\* payload, exactly one frame is substituted, no microphone frame is ever
\* forwarded, and nothing is substituted while no payload is armed.
C1_SingleSubstitution ==
  /\ ~micForwarded
  /\ (armed /\ binSeen >= 1) => (firstFate = "replaced" /\ substituted = 1)
  /\ ~armed => substituted = 0

C19_ArmOnceClearOnce ==
  [][/\ (sphase = "turn" /\ win'.ai_audio_payload # win.ai_audio_payload
           /\ win'.ai_audio_payload # Unset) => ~armed
     /\ (sphase = "turn" /\ sphase' = "roleplay")
          => (armed /\ win.ai_audio_payload = Unset)]_vars

\* C38: during an attempt, a binary frame sent on a connection that was
\* opened before the attempt began (a late frame of an earlier recording,
\* its send already wrapped) leaves the attempt's armed payload and
\* sent-flag as they are and puts no synthetic audio on the network: only a
\* frame of the attempt's own recording consumes the payload.
C38_LateFrameHarmless ==
  [][(/\ InAttempt /\ sphase' = sphase /\ conns' = conns /\ armed' = armed
      /\ lastSent'.kind = "mic"
      /\ conns[lastSent'.conn].stale)
       => (win' = win /\ lastNet'.kind # "synthetic")]_vars

-----------------------------------------------------------------------------
(* The cacheable solvers: SingleChoiceStrategy, MultipleChoiceStrategy,    *)
(* FillInTheBlankStrategy, DragAndDropStrategy (execute, _fill_and_submit, *)
(* _write_answers_to_cache)                                                *)

SolverTags == {"single_choice", "multiple_choice", "fill_in_the_blank", "drag_and_drop_js_injection"}

\* the breadcrumb of the page the solver runs on
PageKey == <<"CourseA", "Unit1", "Listening", "3">>

\* number of .option elements of an option-wrap
NumOptions == 2

\* values an answer can have: "A" is an option of the page, "C" is not
AnswerValues == {"A", "C"}

RECURSIVE SeqsUpTo(_, _)
SeqsUpTo(S, n) ==
  IF n = 0 THEN {<<>>}
  ELSE LET shorter == SeqsUpTo(S, n - 1)
       IN  shorter \cup {Append(x, v) : x \in {y \in shorter : Len(y) = n - 1}, v \in S}

\* answer lists the AI, the answer-review page or a cache file can hold
AnswerLists == SeqsUpTo(AnswerValues, MaxSlots)

\* ord(answer_char) - ord("A") within 0..options_count-1
ValidOption(x) == x = "A" \/ (x = "B" /\ NumOptions >= 2) \/ (x = "C" /\ NumOptions >= 3)

\* a cache file holding {type: t, answers: xs} under the page key
DocWithEntry(t, xs) ==
  LET c0 == SetDefaultWalk(EmptyCache, PageKey, 1, <<>>).c
      c1 == SetItem(c0, PageKey, "type", StrNode(t))
  IN  SetItem(c1, PageKey, "answers", ListNode(xs))

\* the cache file found at start-up
SolverFiles ==
  {<<>>} \cup {<<DocWithEntry(t, xs)>> : t \in SolverTags, xs \in {<<"A">>, <<"A", "A">>, <<"C">>}}

\* the pages: number of .question-common-abs-reply containers and of answer
\* slots (.option-wrap for single choice, inputs for fill-blank, sortable
\* items for drag-order)
Pages == [replies : 1..MaxSlots, slots : 1..MaxSlots]

\* the flags when a cacheable solver runs
CfgSolverStart ==
  cfg \in [FORCE_AI : UnassignedFlagValues, IS_AUTO_MODE : AutoModeValues,
           AUTO_MODE_NO_CONFIRM : UnassignedFlagValues, FAST_CACHE_MODE : {"off"}]

SolverStart ==
  /\ ssolver \in SolverTags
  /\ schained \in BOOLEAN
  /\ spage \in Pages
  /\ spc = "start"
  /\ startEntry = NoResult
  /\ toFill = <<>>
  /\ useCache = FALSE
  /\ cacheWriteNeeded = FALSE
  /\ fillSource = "none"
  /\ filled = <<>>
  /\ aiCalls = 0
  /\ ssubmitted = FALSE
  /\ harvest = <<>>
  /\ sresult = "none"
  /\ declined = "none"

SolverCacheStart ==
  /\ file \in SolverFiles
  /\ cache = _load_cache(file)
  /\ opCount = 0
  /\ lastCall = NoCall
  /\ prevCall = NoCall
  /\ getResult = NoResult
  /\ savedLog = <<>>
  /\ repeated = FALSE

\* execute returns: an exception outside the solver's own try propagates to
\* the caller; DragAndDropStrategy.execute catches everything (line 135)
SolverReturn(res) ==
  /\ spc' = "done"
  /\ sresult' = IF res = "raised" /\ ssolver = "drag_and_drop_js_injection" THEN "false" ELSE res

\* a prompt whose answer is not looked at
PromptOutcomeIgnored(gate, confirm) == "go"

\* input(...) at a confirmation prompt: `if confirm.strip().upper() not in
\* ["Y", ""]` the solver cancels (single_choice 139-142, 205-215;
\* drag_and_drop 93-96, 115-131)
PromptOutcome(gate, confirm) == IF gate = "ask" /\ ~confirm THEN "cancel" ELSE "go"

\* the confirmation prompt before the AI call / before the submission:
\* SingleChoiceStrategy always asks (lines 139, 205)
SolverGate == IF ssolver = "single_choice" THEN "ask" ELSE ConfirmGate(cfg)

\* the field of a cached entry, .get(name, default)
EntryField(e, name) == IF <<name>> \in DOMAIN e THEN e[<<name>>] ELSE [kind |-> "missing", s |-> "", l |-> <<>>]

\* a cache check that never reuses an entry
CacheCheckNoReuse(view) ==
  IF view.status = "raise" \/ cfg.FORCE_AI = FlagUndef
    THEN [r |-> "raise", answers |-> <<>>]
    ELSE [r |-> "miss", answers |-> <<>>]

\* the cache check of execute
\*   single_choice 60-72, multiple_choice 79-86, fill_in_the_blank 56-64,
\*   drag_and_drop 47-54
\* "hit": fill from the entry   "miss": ask the AI   "raise": exception
CacheCheck(view) ==
  IF view.status = "raise" THEN [r |-> "raise", answers |-> <<>>]
  ELSE IF cfg.FORCE_AI = FlagUndef THEN [r |-> "raise", answers |-> <<>>]
  ELSE IF cfg.FORCE_AI = "on" THEN [r |-> "miss", answers |-> <<>>]
  ELSE IF view.status = "none" \/ KeysAt(view.tree, <<>>) = {} THEN [r |-> "miss", answers |-> <<>>]
  ELSE IF EntryField(view.tree, "type") # StrNode(ssolver) THEN [r |-> "miss", answers |-> <<>>]
  ELSE LET a == EntryField(view.tree, "answers")
           xs == IF a.kind = "list" THEN a.l ELSE <<>>
       IN  IF ssolver = "single_choice"
             THEN IF Len(xs) = spage.replies
                    THEN [r |-> "hit", answers |-> xs]
                    ELSE [r |-> "miss", answers |-> <<>>]
             ELSE IF xs # <<>>
                    THEN [r |-> "hit", answers |-> xs]
                    ELSE [r |-> "miss", answers |-> <<>>]

\* execute up to the cache check
SolverCheckCache ==
  /\ spc = "start"
  /\ \E found \in BOOLEAN :
       \* found: breadcrumb (and question containers) could be read
       IF ~found
         THEN /\ spc' = "done"
              /\ sresult' = "false"
              /\ UNCHANGED <<startEntry, toFill, useCache, cacheWriteNeeded>>
       ELSE IF schained
         THEN /\ spc' = "ai"
              /\ cacheWriteNeeded' = FALSE
              /\ UNCHANGED <<startEntry, toFill, useCache, sresult>>
       ELSE LET view == GetView(cache, PageKey)
                chk == CacheCheck(view)
            IN  /\ startEntry' = view
                /\ CASE chk.r = "raise" ->
                          /\ SolverReturn("raised")
                          /\ UNCHANGED <<toFill, useCache, cacheWriteNeeded>>
                     [] chk.r = "hit" ->
                          /\ toFill' = chk.answers
                          /\ useCache' = TRUE
                          /\ spc' = "fill"
                          /\ UNCHANGED <<cacheWriteNeeded, sresult>>
                     [] chk.r = "miss" ->
                          /\ cacheWriteNeeded' = TRUE
                          /\ spc' = "ai"
                          /\ UNCHANGED <<toFill, useCache, sresult>>
  /\ UNCHANGED <<ssolver, schained, spage, fillSource, filled, aiCalls, ssubmitted, harvest>>
  /\ UNCHANGED declined
  /\ UNCHANGED <<cache, file>>
  /\ UNCHANGED nonSolverVars

\* the AI path of execute: prompt confirmation, get_chat_completion
\*   single_choice 139-150, multiple_choice 120-140, fill_in_the_blank 100-123,
\*   drag_and_drop 86-105
SolverAskAI ==
  /\ spc = "ai"
  /\ IF SolverGate = "raise"
       THEN /\ SolverReturn("raised")
            /\ UNCHANGED <<toFill, aiCalls, declined>>
       ELSE \E confirm \in BOOLEAN, reply \in {<<"invalid">>} \cup AnswerLists :
              /\ declined' = IF SolverGate = "ask" /\ ~confirm THEN "prompt" ELSE declined
              /\ IF PromptOutcome(SolverGate, confirm) = "cancel"
                   THEN /\ SolverReturn("false")
                        /\ UNCHANGED <<toFill, aiCalls>>
                 ELSE IF reply = <<"invalid">>
                   THEN /\ SolverReturn("false")
                        /\ aiCalls' = aiCalls + 1
                        /\ UNCHANGED toFill
                 ELSE /\ toFill' = reply
                      /\ aiCalls' = aiCalls + 1
                      /\ spc' = "fill"
                      /\ UNCHANGED sresult
  /\ UNCHANGED <<ssolver, schained, spage, startEntry, useCache, cacheWriteNeeded, fillSource,
                 filled, ssubmitted, harvest>>
  /\ UNCHANGED <<cache, file>>
  /\ UNCHANGED nonSolverVars

\* the checks _fill_and_submit makes before it touches the page
\*   single_choice 177-192, multiple_choice 167-178, fill_in_the_blank 160-163;
\*   drag_and_drop evaluates the reordering script with any target_order
FillAllowed(answers) ==
  CASE ssolver = "single_choice" ->
         Len(answers) = spage.slots /\ \A i \in 1..Len(answers) : ValidOption(answers[i])
    [] ssolver = "multiple_choice" ->
         \A i \in 1..Len(answers) : ValidOption(answers[i])
    [] ssolver = "fill_in_the_blank" ->
         Len(answers) = spage.slots
    [] ssolver = "drag_and_drop_js_injection" -> TRUE

\* the answers are put on the page
\*   single_choice 195-199, multiple_choice 181-185, fill_in_the_blank 166-170,
\*   drag_and_drop 107-109
SolverFill ==
  /\ spc = "fill"
  /\ IF ~FillAllowed(toFill)
       THEN /\ spc' = "done"
            /\ sresult' = "false"
            /\ UNCHANGED <<fillSource, filled>>
       ELSE /\ fillSource' = IF useCache THEN "cache" ELSE "ai"
            /\ filled' = toFill
            /\ IF schained
                 THEN spc' = "done" /\ sresult' = "true"
                 ELSE spc' = "submit" /\ UNCHANGED sresult
  /\ UNCHANGED <<ssolver, schained, spage, startEntry, toFill, useCache, cacheWriteNeeded,
                 aiCalls, ssubmitted, harvest>>
  /\ UNCHANGED declined
  /\ UNCHANGED <<cache, file>>
  /\ UNCHANGED nonSolverVars

\* the submission: confirmation prompt, click, confirmation dialog
\*   single_choice 204-216, multiple_choice 190-209, fill_in_the_blank 175-192,
\*   drag_and_drop 112-131; an exception here is caught by the solver
SolverSubmit ==
  /\ spc = "submit"
  /\ IF SolverGate = "raise"
       THEN /\ spc' = "done"
            /\ sresult' = "false"
            /\ UNCHANGED <<ssubmitted, declined>>
       ELSE \E confirm \in BOOLEAN :
              /\ declined' = IF SolverGate = "ask" /\ ~confirm THEN "submit" ELSE declined
              /\ IF PromptOutcome(SolverGate, confirm) = "cancel"
                   THEN /\ spc' = "done"
                        /\ sresult' = "false"
                        /\ UNCHANGED ssubmitted
                   ELSE /\ ssubmitted' = TRUE
                        /\ IF cacheWriteNeeded
                             THEN spc' = "harvest" /\ UNCHANGED sresult
                             ELSE spc' = "done" /\ sresult' = "true"
  /\ UNCHANGED <<ssolver, schained, spage, startEntry, toFill, useCache, cacheWriteNeeded,
                 fillSource, filled, aiCalls, harvest>>
  /\ UNCHANGED <<cache, file>>
  /\ UNCHANGED nonSolverVars

\* _write_answers_to_cache: go to the answer-review page, extract the
\* correct answers, save them; every exception is caught and logged
\*   single_choice 225-242, multiple_choice 217-234, fill_in_the_blank 200-217,
\*   drag_and_drop 188-203
SolverWriteCache ==
  /\ spc = "harvest"
  /\ \E reached \in BOOLEAN, h \in AnswerLists :
       IF ~reached \/ h = <<>>
         THEN UNCHANGED <<cache, file, harvest>>
         ELSE LET r == save_task_page_answers(cache, file, PageKey, ssolver, StrAnswers(h))
              IN  /\ cache' = r.c
                  /\ file' = r.f
                  /\ harvest' = h
  /\ spc' = "done"
  /\ sresult' = "true"
  /\ UNCHANGED <<ssolver, schained, spage, startEntry, toFill, useCache, cacheWriteNeeded,
                 fillSource, filled, aiCalls, ssubmitted>>
  /\ UNCHANGED declined
  /\ UNCHANGED nonSolverVars

SolverInit == SolverStart /\ SolverCacheStart /\ CfgSolverStart /\ VoiceIdle /\ SpliceIdle /\ ChainIdle /\ DispatchIdle /\ RolePlayIdle /\ RecordingIdle /\ VisitIdle /\ ReplayIdle

SolverNext == SolverCheckCache \/ SolverAskAI \/ SolverFill \/ SolverSubmit \/ SolverWriteCache

SpecSolver == SolverInit /\ [][SolverNext]_vars

\* the answers list of the entry the cache check saw
EntryAnswers(view) ==
  IF view.status = "found" /\ <<"answers">> \in DOMAIN view.tree /\ view.tree[<<"answers">>].kind = "list"
    THEN view.tree[<<"answers">>].l ELSE <<>>

\* C8: a non-chained single-choice, fill-blank or drag-order solver never
\* puts on the page the answers of a cached entry whose length differs from
\* the number of answer slots of the page.
C8_ReuseGuard ==
  (/\ ~schained
   /\ ssolver \in {"single_choice", "fill_in_the_blank", "drag_and_drop_js_injection"}
   /\ startEntry.status = "found"
   /\ Len(EntryAnswers(startEntry)) # spage.slots)
    => fillSource # "cache"

\* C10: from a cache without an entry for the page key, after a non-chained
\* solver answered through the AI, submitted and harvested a non-empty list H,
\* get(page key) returns {type: the solver's tag, answers: H}.
C10_HarvestStored ==
  (/\ spc = "done"
   /\ ~schained
   /\ startEntry.status = "none"
   /\ fillSource = "ai"
   /\ ssubmitted
   /\ harvest # <<>>)
    => GetView(cache, PageKey) = [status |-> "found", tree |-> Entry(ssolver, harvest)]

\* the count execute compares the cached list with: the question containers
\* for single choice (line 66), the answer slots of the page otherwise
DetectedCount == IF ssolver = "single_choice" THEN spage.replies ELSE spage.slots

\* the cache check saw an entry of the solver's own type whose answers list
\* has the detected length, in a non-chained solve with AI forcing off
CacheHitCase ==
  /\ ~schained
  /\ cfg.FORCE_AI = "off"
  /\ startEntry.status = "found"
  /\ EntryField(startEntry.tree, "type") = StrNode(ssolver)
  /\ Len(EntryAnswers(startEntry)) = DetectedCount

C20_MismatchFallsBack ==
  (/\ ~schained
   /\ cfg.FORCE_AI \in FlagSet
   /\ startEntry.status = "found"
   /\ EntryField(startEntry.tree, "type") = StrNode(ssolver)
   /\ Len(EntryAnswers(startEntry)) # spage.slots
   /\ (ssolver = "single_choice" => spage.replies = spage.slots))
    => /\ ~useCache
       /\ fillSource # "cache"
       /\ (spc = "done" /\ ssubmitted /\ harvest # <<>>)
            => GetView(cache, PageKey) = [status |-> "found", tree |-> Entry(ssolver, harvest)]

-----------------------------------------------------------------------------
(* The chained-task controller: run_strategy_on_current_page and           *)
(* _cache_chained_answers (src/main.py)                                    *)

\* AVAILABLE_STRATEGIES, by strategy_type
AvailableStrategies ==
  {"unsupported_image_question", "role_play", "discussion", "read_aloud", "qa_voice",
   "checkbox_self_check", "drag_and_drop_js_injection", "fill_in_the_blank", "short_answer",
   "multiple_choice", "single_choice", "no_reply"}

\* cacheable_strategies
CacheableStrategies ==
  {"single_choice", "multiple_choice", "fill_in_the_blank", "drag_and_drop_js_injection"}

\* the strategies whose execute has a sub_task_index parameter and returns a
\* pair; calling any other with sub_task_index raises TypeError
AcceptsSubTaskIndex(st) ==
  st \in {"drag_and_drop_js_injection", "short_answer", "no_reply", "unsupported_image_question"}

\* what execute(is_chained_task=True, sub_task_index=i) can return
\*   drag_and_drop 133: (True, cache_write_needed), cache_write_needed = not is_chained_task
\*   short_answer 116, no_reply 170: (succeeded, False)
\*   unsupported_image 39: (False, False)
ChainedReturns(st) ==
  IF st = "unsupported_image_question"
    THEN {[succeeded |-> FALSE, cache_written |-> FALSE]}
    ELSE {[succeeded |-> ok, cache_written |-> FALSE] : ok \in BOOLEAN}

\* what _extract_additional_material_for_ai can return: "" when the page
\* shows no material
Materials == {"", "m1", "m2"}

\* a context that keeps only the newest material
KeepNewestMaterial(ctx, material) == IF material # "" THEN <<material>> ELSE ctx

\* `if material: shared_context += f"\n{material}"` (lines 203-206)
AddMaterial(ctx, material) == IF material # "" THEN Append(ctx, material) ELSE ctx

\* the prompt a solver run with is_chained_task=True shows before its AI
\* call (drag_and_drop 92-96, short_answer 100-104); no_reply and
\* unsupported_image ask nothing
ChainedPrompt(st) ==
  IF st \in {"drag_and_drop_js_injection", "short_answer"} THEN ConfirmGate(cfg) ELSE "skip"

\* str(sub_task_index)
IndexStr(i) ==
  CASE i = 0 -> "0" [] i = 1 -> "1" [] i = 2 -> "2" [] i = 3 -> "3" [] OTHER -> "4"

\* base_breadcrumb_parts + [str(sub_task_index)]
SubTaskKey(i) == Append(PageKey, IndexStr(i))

NextIndexSkip(i) == i + 2
NextIndex(i) == i + 1

\* the cache file found at start-up: missing, an entry for the page, or an
\* entry for the first sub-task
ChainFiles ==
  { <<>>,
    <<DocWithEntry("single_choice", <<"A">>)>>,
    <<SetItem(SetItem(SetDefaultWalk(EmptyCache, SubTaskKey(0), 1, <<>>).c,
                      SubTaskKey(0), "type", StrNode("single_choice")),
              SubTaskKey(0), "answers", ListNode(<<"A">>))>> }

ChainCacheStart ==
  /\ file \in ChainFiles
  /\ cache = _load_cache(file)
  /\ opCount = 0
  /\ lastCall = NoCall
  /\ prevCall = NoCall
  /\ getResult = NoResult
  /\ savedLog = <<>>
  /\ repeated = FALSE

CfgChainStart ==
  cfg \in [FORCE_AI : {FlagUndef}, IS_AUTO_MODE : AutoModeValues,
           AUTO_MODE_NO_CONFIRM : {FlagUndef}, FAST_CACHE_MODE : {FlagUndef} \cup FlagSet]

ChainStart ==
  /\ cpc = "enter"
  /\ subTaskIndex = 0
  /\ tasksToCache = <<>>
  /\ cstrategy = "none"
  /\ dispatchLog = <<>>
  /\ settled = {}
  /\ nextClicks = 0
  /\ chainEnd = "none"
  /\ failedAt = -1
  /\ chainLog = <<>>
  /\ rateLimitSeen = FALSE
  /\ declinedAt = -1
  /\ aiSolved = {}
  /\ sharedContext = <<>>
  /\ passedContext = <<>>
  /\ materialSeen = <<>>

\* strategies_to_run (lines 118, 133)
StrategiesToRun ==
  IF cfg.FAST_CACHE_MODE = "on" THEN AvailableStrategies \cap CacheableStrategies
  ELSE AvailableStrategies

\* the controller stops
ChainStop(how) ==
  /\ cpc' = "done"
  /\ chainEnd' = how

\* the loop body falls through to the button check
LoopFallThrough(how) ==
  /\ cpc' = "button"
  /\ UNCHANGED chainEnd

\* `break` in the loop body (lines 197, 200): the while loop is left and
\* run_strategy_on_current_page returns
LoopBreak(how) == ChainStop(how)

\* the final submission always followed by the replay
SubmitStepsAlwaysReplay(ts) ==
  <<"submit_click", "rate_limit_check", "confirmation", "replay">>

\* the steps of the submit branch (lines 218-227): click,
\* handle_rate_limit_modal, handle_submission_confirmation, and
\* _cache_chained_answers `if tasks_to_cache`
SubmitSteps(ts) ==
  <<"submit_click", "rate_limit_check", "confirmation">>
    \o (IF ts # <<>> THEN <<"replay">> ELSE <<>>)

\* an unknown text handled like the final submission
UnknownTextSubmits(ts) == SubmitSteps(ts)

\* the steps of the else branch (lines 228-230): a warning is logged and
\* the loop is left
UnknownTextSteps(ts) == <<>>

\* tasks_to_cache.sort(key=lambda x: x['index']) (stable)
RECURSIVE SortByIndex(_)
SortByIndex(ts) ==
  IF Len(ts) <= 1 THEN ts
  ELSE LET m == CHOOSE i \in 1..Len(ts) :
                  /\ \A j \in 1..Len(ts) : ts[i].index <= ts[j].index
                  /\ \A j \in 1..(i - 1) : ts[j].index # ts[i].index
           rest == [j \in 1..(Len(ts) - 1) |-> IF j < m THEN ts[j] ELSE ts[j + 1]]
       IN  <<ts[m]>> \o SortByIndex(rest)

\* the loop of _cache_chained_answers (lines 69-96) over the sorted tasks:
\* hs[i] is what the answer-review page yields for task i; an exception of
\* save_task_page_answers ends the loop (line 100)
RECURSIVE CacheChainedLoop(_, _, _, _, _)
CacheChainedLoop(c, f, ts, hs, i) ==
  IF i > Len(ts) THEN [c |-> c, f |-> f]
  ELSE IF hs[i] = <<>> THEN CacheChainedLoop(c, f, ts, hs, i + 1)
  ELSE LET r == save_task_page_answers(c, f, SubTaskKey(ts[i].index), ts[i].type, StrAnswers(hs[i]))
       IN  IF r.raised THEN [c |-> r.c, f |-> r.f]
           ELSE CacheChainedLoop(r.c, r.f, ts, hs, i + 1)

\* _cache_chained_answers (lines 47-101)
_cache_chained_answers(c, f, ts, reached, hs) ==
  IF ts = <<>> \/ ~reached THEN [c |-> c, f |-> f]
  ELSE CacheChainedLoop(c, f, SortByIndex(ts), hs, 1)

\* run_strategy_on_current_page up to the start of the chain loop
\* (lines 104-165)
ChainEnter ==
  /\ cpc = "enter"
  /\ IF cfg.FAST_CACHE_MODE = FlagUndef
       THEN ChainStop("raised")                                \* AttributeError, line 121
     ELSE LET view == GetView(cache, PageKey)
          IN  IF cfg.FAST_CACHE_MODE = "on" /\ view.status = "raise"
                THEN ChainStop("raised")
              ELSE IF /\ cfg.FAST_CACHE_MODE = "on"
                      /\ view.status = "found"
                      /\ KeysAt(view.tree, <<>>) # {}
                      /\ EntryAnswers(view) # <<>>
                THEN ChainStop("skipped")                       \* line 129
              ELSE \E btn \in {"next", "other"} :
                     IF btn = "next"
                       THEN cpc' = "match" /\ UNCHANGED chainEnd
                       ELSE ChainStop("not_a_chain")
  /\ UNCHANGED <<subTaskIndex, tasksToCache, cstrategy, dispatchLog, settled, nextClicks,
                 failedAt, chainLog, rateLimitSeen, declinedAt, aiSolved,
                 sharedContext, passedContext, materialSeen>>
  /\ UNCHANGED <<cache, file, cfg>>
  /\ UNCHANGED nonChainVars

\* the top of the while loop: the strategy search and, in fast cache mode,
\* the cache check of the sub-task (lines 168-184, 201-206)
ChainMatch ==
  /\ cpc = "match"
  /\ dispatchLog' = Append(dispatchLog, subTaskIndex)
  /\ \E st \in StrategiesToRun \cup {"none"} :
       /\ cstrategy' = st
       /\ IF st = "none"
            THEN \E material \in Materials :                   \* lines 201-206
                   /\ settled' = settled \cup {subTaskIndex}
                   /\ cpc' = "button"
                   /\ sharedContext' = AddMaterial(sharedContext, material)
                   /\ materialSeen' = Append(materialSeen, material)
                   /\ UNCHANGED <<chainEnd, failedAt>>
          ELSE /\ UNCHANGED <<sharedContext, materialSeen>>
               /\ IF cfg.FAST_CACHE_MODE = "on"
                    THEN LET view == GetView(cache, SubTaskKey(subTaskIndex))
                         IN  IF view.status = "raise"
                               THEN /\ LoopBreak("broken")      \* line 200
                                    /\ failedAt' = subTaskIndex
                                    /\ UNCHANGED settled
                             ELSE IF view.status = "found" /\ Truthy(view.tree, <<>>)
                               THEN /\ settled' = settled \cup {subTaskIndex}
                                    /\ cpc' = "button"
                                    /\ UNCHANGED <<chainEnd, failedAt>>
                             ELSE cpc' = "solving" /\ UNCHANGED <<settled, chainEnd, failedAt>>
                    ELSE cpc' = "solving" /\ UNCHANGED <<settled, chainEnd, failedAt>>
  /\ UNCHANGED <<subTaskIndex, tasksToCache, nextClicks, chainLog, rateLimitSeen, declinedAt,
                 aiSolved, passedContext>>
  /\ UNCHANGED <<cache, file, cfg>>
  /\ UNCHANGED nonChainVars

\* the solver of the sub-task runs and returns; its cache-write decision is
\* recorded (lines 185-200)
ChainExecute ==
  /\ cpc = "solving"
  /\ IF ~AcceptsSubTaskIndex(cstrategy)
       THEN /\ LoopBreak("broken")                              \* TypeError, line 198
            /\ failedAt' = subTaskIndex
            /\ UNCHANGED <<tasksToCache, settled, declinedAt, aiSolved>>
       ELSE \E confirm \in BOOLEAN, ret \in ChainedReturns(cstrategy) :
              LET gate == ChainedPrompt(cstrategy)
                  r == IF PromptOutcome(gate, confirm) = "cancel"
                         THEN [succeeded |-> FALSE, cache_written |-> FALSE]
                         ELSE ret
                  task == [index |-> subTaskIndex, type |-> cstrategy]
              IN  /\ declinedAt' = IF gate = "ask" /\ ~confirm THEN subTaskIndex ELSE declinedAt
                  /\ aiSolved' = IF r.succeeded /\ cstrategy \in CacheableStrategies
                                   THEN aiSolved \cup {task} ELSE aiSolved
                  /\ tasksToCache' = IF r.cache_written
                                       THEN Append(tasksToCache, task)
                                       ELSE tasksToCache
                  /\ settled' = settled \cup {subTaskIndex}
                  /\ IF r.succeeded
                       THEN cpc' = "button" /\ UNCHANGED <<chainEnd, failedAt>>
                       ELSE /\ LoopBreak("broken")             \* line 197
                            /\ failedAt' = subTaskIndex
  /\ passedContext' = Append(passedContext, [index |-> subTaskIndex, ctx |-> sharedContext,
                                                seen |-> Len(materialSeen)])
  /\ UNCHANGED <<subTaskIndex, cstrategy, dispatchLog, nextClicks, chainLog, rateLimitSeen,
                 sharedContext, materialSeen>>
  /\ UNCHANGED <<cache, file, cfg>>
  /\ UNCHANGED nonChainVars

\* the control at the bottom of the loop (lines 208-230)
ChainButton ==
  /\ cpc = "button"
  /\ \E btn \in {"next", "submit", "unknown", "timeout"} :
       CASE btn = "next" ->
              /\ NextIndex(subTaskIndex) < MaxSubTasks
              /\ subTaskIndex' = NextIndex(subTaskIndex)
              /\ nextClicks' = nextClicks + 1
              /\ cpc' = "match"
              /\ UNCHANGED <<chainEnd, cache, file, chainLog, rateLimitSeen>>
         [] btn = "submit" ->
              \* modal: the 'too frequent' modal is up after the click; the
              \* RateLimitException handle_rate_limit_modal raises is caught
              \* by its own `except Exception` (driver_service.py:703)
              /\ \E modal \in BOOLEAN, reached \in BOOLEAN,
                    hs \in [1..Len(tasksToCache) -> AnswerLists] :
                   LET r == _cache_chained_answers(cache, file, tasksToCache, reached, hs)
                   IN  /\ cache' = r.c
                       /\ file' = r.f
                       /\ rateLimitSeen' = modal
              /\ chainLog' = chainLog \o SubmitSteps(tasksToCache)
              /\ ChainStop("submitted")
              /\ UNCHANGED <<subTaskIndex, nextClicks>>
         [] btn = "unknown" ->
              /\ ChainStop("unknown_button")
              /\ chainLog' = chainLog \o UnknownTextSteps(tasksToCache)
              /\ UNCHANGED <<subTaskIndex, nextClicks, cache, file, rateLimitSeen>>
         [] btn = "timeout" ->
              /\ ChainStop("raised")                            \* line 209, caught at 253
              /\ UNCHANGED <<subTaskIndex, nextClicks, cache, file, chainLog, rateLimitSeen>>
  /\ UNCHANGED <<tasksToCache, cstrategy, dispatchLog, settled, cfg, failedAt, declinedAt,
                 aiSolved, sharedContext, passedContext, materialSeen>>
  /\ UNCHANGED nonChainVars

ChainInit == ChainStart /\ ChainCacheStart /\ CfgChainStart /\ VoiceIdle /\ SpliceIdle /\ SolverIdle /\ DispatchIdle /\ RolePlayIdle /\ RecordingIdle /\ VisitIdle /\ ReplayIdle

ChainNext == ChainEnter \/ ChainMatch \/ ChainExecute \/ ChainButton

SpecChain == ChainInit /\ [][ChainNext]_vars

\* C9: the sub-task index starts at 0 and grows by one exactly with each
\* click on 'next'; the sub-tasks are dispatched in the order 0, 1, 2, ...;
\* the dispatch of a sub-task starts only after the loop body of every
\* earlier sub-task (solver return and pending-write decision) is complete;
\* the pending list never holds two entries with the same index.
C9_ChainSequencing ==
  /\ subTaskIndex = nextClicks
  /\ \A j \in 1..Len(dispatchLog) : dispatchLog[j] = j - 1
  /\ \A j \in 1..Len(dispatchLog) : dispatchLog[j] < subTaskIndex => dispatchLog[j] \in settled
  /\ cpc = "solving" => subTaskIndex \notin settled
  /\ \A a, b \in 1..Len(tasksToCache) : a # b => tasksToCache[a].index # tasksToCache[b].index

\* C9 witness: the solver of sub-task 0 returned, 'next' was clicked and the
\* solver of sub-task 1 is running
C9_Witness ==
  /\ cpc = "solving"
  /\ subTaskIndex = 1
  /\ dispatchLog = <<0, 1>>
  /\ 0 \in settled
  /\ nextClicks = 1

\* C14: once the loop body of sub-task i ended in a break (the solver
\* returned succeeded = False, or the body raised), the controller has
\* stopped with the chain broken: sub-task i is the last one dispatched and
\* was dispatched once, 'next' was clicked i times and not again, and no
\* step of the final submission was performed.
C14_FailureAbandonsChain ==
  failedAt # -1 =>
    /\ cpc = "done"
    /\ chainEnd = "broken"
    /\ subTaskIndex = failedAt
    /\ nextClicks = failedAt
    /\ Len(dispatchLog) = failedAt + 1
    /\ dispatchLog[Len(dispatchLog)] = failedAt
    /\ Cardinality({j \in 1..Len(dispatchLog) : dispatchLog[j] = failedAt}) = 1
    /\ chainLog = <<>>

\* C14 witness: the solver of the second sub-task failed
C14_Witness ==
  /\ failedAt = 1
  /\ chainEnd = "broken"
  /\ nextClicks = 1
  /\ dispatchLog = <<0, 1>>

\* positions of a step in chainLog
StepPositions(step) == {i \in 1..Len(chainLog) : chainLog[i] = step}

C39_SubmitAfterAllSolved ==
  chainEnd = "submitted"
    => Len(passedContext) = Len(dispatchLog) - Len(materialSeen)

\* C17: when handle_rate_limit_modal finds the 'too frequent' modal after
\* the submission click, the rate-limit error leaves
\* run_strategy_on_current_page: the confirmation dialog is not handled and
\* the controller does not end as an ordinary submission.
C17_RateLimitPropagates ==
  rateLimitSeen =>
    /\ chainEnd = "rate_limited"
    /\ StepPositions("confirmation") = {}

-----------------------------------------------------------------------------
(* The strategy search of run_strategy_on_current_page (src/main.py):      *)
(*   for StrategyClass in strategies_to_run:                               *)
(*       if await StrategyClass.check(browser_service):                    *)
(*           current_strategy = StrategyClass(...); break                  *)

\* AVAILABLE_STRATEGIES (lines 26-44), by strategy_type
AVAILABLE_STRATEGIES ==
  <<"unsupported_image_question", "role_play", "discussion", "read_aloud", "qa_voice",
    "checkbox_self_check", "drag_and_drop_js_injection", "fill_in_the_blank", "short_answer",
    "multiple_choice", "single_choice", "no_reply">>

\* [s for s in xs if s in keep]
RECURSIVE FilterSeq(_, _)
FilterSeq(xs, keep) ==
  IF xs = <<>> THEN <<>>
  ELSE (IF Head(xs) \in keep THEN <<Head(xs)>> ELSE <<>>) \o FilterSeq(Tail(xs), keep)

\* strategies_to_run (lines 118, 133)
strategies_to_run ==
  IF cfg.FAST_CACHE_MODE = "on" THEN FilterSeq(AVAILABLE_STRATEGIES, CacheableStrategies)
  ELSE AVAILABLE_STRATEGIES

\* where the for loop continues after a strategy matched
AfterMatchNoBreak(pos, n) == pos + 1
\* `break`: the loop is left
AfterMatch(pos, n) == n + 1

CfgDispatchStart ==
  cfg \in [FORCE_AI : {FlagUndef}, IS_AUTO_MODE : AutoModeValues,
           AUTO_MODE_NO_CONFIRM : {FlagUndef}, FAST_CACHE_MODE : {FlagUndef} \cup FlagSet]

\* a page: any combination of check results (every check catches its
\* errors and returns a bool)
DispatchStart ==
  /\ dpc = "begin"
  /\ dpage \in SUBSET AvailableStrategies
  /\ dlist = <<>>
  /\ dpos = 0
  /\ checked = <<>>
  /\ instantiated = <<>>
  /\ daff \in {"submit", "next", "none"}
  /\ invocation = NoInvocation

\* run_strategy_on_current_page up to the for loop (lines 109-146); the
\* cache is empty, so fast cache mode does not skip the page
DispatchBegin ==
  /\ dpc = "begin"
  /\ IF cfg.FAST_CACHE_MODE = FlagUndef
       THEN /\ dpc' = "done"                                   \* AttributeError, line 121
            /\ UNCHANGED <<dlist, dpos>>
       ELSE /\ dlist' = strategies_to_run
            /\ dpos' = 1
            /\ dpc' = "loop"
  /\ UNCHANGED <<dpage, checked, instantiated, daff, invocation>>
  /\ UNCHANGED nonDispatchVars

\* one iteration of the for loop (lines 147-151, 168-172, 234-238)
DispatchCheck ==
  /\ dpc = "loop"
  /\ dpos <= Len(dlist)
  /\ checked' = Append(checked, dlist[dpos])
  /\ IF dlist[dpos] \in dpage
       THEN /\ instantiated' = Append(instantiated, dlist[dpos])
            /\ dpos' = AfterMatch(dpos, Len(dlist))
       ELSE /\ dpos' = dpos + 1
            /\ UNCHANGED instantiated
  /\ UNCHANGED <<dpc, dpage, dlist, daff, invocation>>
  /\ UNCHANGED nonDispatchVars

\* the for loop is over
DispatchEnd ==
  /\ dpc = "loop"
  /\ dpos > Len(dlist)
  /\ dpc' = "done"
  /\ UNCHANGED <<dpage, dlist, dpos, checked, instantiated, daff, invocation>>
  /\ UNCHANGED nonDispatchVars

\* the keyword parameters of each strategy's execute
\*   checkbox_strategy 31: execute(self)
\*   drag_and_drop 34, short_answer 32, no_reply 60, unsupported_image 34:
\*     (shared_context, is_chained_task, sub_task_index)
\*   every other strategy: (shared_context, is_chained_task)
ExecuteParams(st) ==
  IF st = "checkbox_self_check" THEN {}
  ELSE IF AcceptsSubTaskIndex(st) THEN {"shared_context", "is_chained_task", "sub_task_index"}
  ELSE {"shared_context", "is_chained_task"}

\* the keywords the controller passes: line 154 and lines 245, 248 pass
\* is_chained_task, the chain loop (lines 185-191) all three
CallKeywords(aff) ==
  IF aff = "next" THEN {"shared_context", "is_chained_task", "sub_task_index"}
  ELSE {"is_chained_task"}

\* the value passed for is_chained_task (lines 154, 189, 243-248)
ChainedArg(aff, st) ==
  CASE aff = "submit" -> FALSE
    [] aff = "next" -> TRUE
    [] aff = "none" -> st \notin {"role_play", "discussion"}

\* execute returns a (succeeded, cache_written) pair
ReturnsPair(st) == AcceptsSubTaskIndex(st)

\* execute clicks the page's submit (or publish) control: every strategy
\* that has one does so only `if not is_chained_task`
SubmitsWhen(st, chained) ==
  ~chained /\ st \notin {"unsupported_image_question", "checkbox_self_check", "no_reply"}

\* the results execute can signal
SolverOutcomes(st) == IF st = "unsupported_image_question" THEN {FALSE} ELSE BOOLEAN

\* Python binds the keywords to the signature: a keyword that execute does
\* not declare raises TypeError before the body runs
Binds(kw, st) == kw \subseteq ExecuteParams(st)

\* where the controller goes after the call: the chain loop re-reads the
\* control or breaks, the other branches end
AfterCall(aff, broke) ==
  IF aff = "next" THEN (IF broke THEN "break" ELSE "button") ELSE "end"

\* the controller calls execute of the matched strategy and reads its result
\* (lines 153-156, 175-206, 240-251); the cache is empty, so fast cache mode
\* does not skip the sub-task
DispatchInvoke ==
  /\ dpc = "done"
  /\ dlist # <<>>
  /\ dpc' = "returned"
  /\ IF instantiated = <<>>
       THEN invocation' = [NoInvocation EXCEPT !.next = AfterCall(daff, FALSE)]
     ELSE LET st == instantiated[1]
              chained == ChainedArg(daff, st)
          IN  IF daff = "none" /\ chained /\ cfg.FAST_CACHE_MODE = "on"
                THEN invocation' = [NoInvocation EXCEPT !.call = "skipped", !.next = "end"]
              ELSE IF ~Binds(CallKeywords(daff), st)
                THEN invocation' = [NoInvocation EXCEPT !.call = "execute", !.chained = chained,
                                                        !.error = TRUE,
                                                        !.next = AfterCall(daff, TRUE)]
              ELSE \E ok \in SolverOutcomes(st),
                      sub \in (IF SubmitsWhen(st, chained) THEN BOOLEAN ELSE {FALSE}) :
                     LET unpacked == daff # "next" \/ ReturnsPair(st)
                     IN  invocation' = [call |-> "execute", ran |-> TRUE, chained |-> chained,
                                        ok |-> ok, submitted |-> sub, error |-> ~unpacked,
                                        next |-> AfterCall(daff, ~unpacked \/ ~ok)]
  /\ UNCHANGED <<dpage, dlist, dpos, checked, instantiated, daff>>
  /\ UNCHANGED nonDispatchVars

DispatchInit ==
  /\ DispatchStart /\ CfgDispatchStart /\ CacheIdle /\ VoiceIdle /\ SpliceIdle /\ SolverIdle
  /\ ChainIdle /\ RolePlayIdle /\ RecordingIdle /\ VisitIdle /\ ReplayIdle

DispatchNext == DispatchBegin \/ DispatchCheck \/ DispatchEnd \/ DispatchInvoke

SpecDispatch == DispatchInit /\ [][DispatchNext]_vars

\* the registry order the dispatch contract names
RegistryOrder ==
  <<"unsupported_image_question", "role_play", "discussion", "read_aloud", "qa_voice",
    "checkbox_self_check", "drag_and_drop_js_injection", "fill_in_the_blank", "short_answer",
    "multiple_choice", "single_choice", "no_reply">>

\* the positions of strategies_to_run whose strategy matches the page
MatchingPositions == {i \in 1..Len(dlist) : dlist[i] \in dpage}

C27_TextPassesThrough ==
  lastSent.kind = "text" => lastNet = lastSent

\* C27 witness: a text message went through a channel that carries both
\* wrappers while a payload was armed
C27_Witness ==
  /\ lastSent.kind = "text"
  /\ lastNet = lastSent
  /\ lastSent.conn <= Len(conns)
  /\ Len(conns[lastSent.conn].layers) = 2
  /\ win.ai_audio_payload # Unset

\* C24: when the text of the control read after a sub-task is neither a
\* 'next' nor a 'submit' text, the loop ends in that very step: nothing is
\* clicked (no 'next' click, no submit click), the sub-task index stays, no
\* submission step and no replay is performed, the cache and its file stay.
C24_UnknownTextEndsLoop ==
  [][(cpc = "button" /\ chainEnd' = "unknown_button") =>
       /\ cpc' = "done"
       /\ nextClicks' = nextClicks
       /\ subTaskIndex' = subTaskIndex
       /\ chainLog' = chainLog
       /\ cache' = cache
       /\ file' = file]_vars

\* C24 witness: the chain ended on an unknown text after the solver of
\* sub-task 1 had returned
C24_Witness ==
  /\ cpc = "done"
  /\ chainEnd = "unknown_button"
  /\ subTaskIndex = 1
  /\ 1 \in settled
  /\ chainLog = <<>>

\* C23: on a page with neither control the strategy search runs once; a
\* matched role-play or discussion strategy is executed with
\* is_chained_task = False; any other matched strategy (fast cache mode off)
\* is executed with is_chained_task = True and clicks no submit control;
\* with no match no execute is called and no error occurs.
C23_NoAffordance ==
  (dpc = "returned" /\ daff = "none") =>
    IF instantiated = <<>>
      THEN invocation.call = "none" /\ ~invocation.error
    ELSE IF instantiated[1] \in {"role_play", "discussion"}
      THEN invocation.ran /\ ~invocation.chained
    ELSE cfg.FAST_CACHE_MODE = "off"
           => (invocation.ran /\ invocation.chained /\ ~invocation.submitted)

\* C29: whenever a strategy matched (and the call is not skipped by fast
\* cache mode), its execute body runs, with is_chained_task = False on a
\* page with a submit control and True in the chain loop, and its result is
\* read without error; in the chain loop a solve that succeeded leads to the
\* re-read of the control, and the loop breaks only when the solver ran and
\* signalled failure.
C29_InvocationRuns ==
  (dpc = "returned" /\ instantiated # <<>> /\ invocation.call = "execute") =>
    /\ invocation.ran
    /\ ~invocation.error
    /\ daff = "submit" => ~invocation.chained
    /\ daff = "next" => invocation.chained
    /\ (daff = "next" /\ invocation.ok) => invocation.next = "button"
    /\ invocation.next = "break" => (invocation.ran /\ ~invocation.ok)

-----------------------------------------------------------------------------
(* RolePlayStrategy.execute and _execute_and_evaluate_turns                *)

\* max_retries (line 42)
max_retries == 2
\* score_threshold (line 43)
score_threshold == 85

\* scores the page can show for a turn
TurnScores == {59, 60, 84, 85, 100}

RECURSIVE SumSeq(_)
SumSeq(q) == IF q = <<>> THEN 0 ELSE Head(q) + SumSeq(Tail(q))

\* `average_score >= score_threshold` with average_score =
\* sum(turn_scores) / len(turn_scores), 0.0 for an empty list
\* (lines 57, 194-200)
AverageReachesThreshold(scores) ==
  scores # <<>> /\ SumSeq(scores) >= score_threshold * Len(scores)

FailureAlwaysClicks(chained) == TRUE

\* after the last retry failed: `if not is_chained_task:` try the click on
\* the submit control "to end the task" (lines 73-80)
FailureClicksSubmit(chained) == ~chained

RolePlayStart ==
  /\ rpc = "prepare"
  /\ rpChained \in BOOLEAN
  /\ myTurns \in 0..MaxTurns
  /\ currentRetry = 0
  /\ rturn = 0
  /\ turnScores = <<>>
  /\ prevScores = <<>>
  /\ rpResult = "none"
  /\ rpSubmitted = FALSE

\* the top of the while loop: _prepare_turns (role, turn list, audio for
\* every turn by text_to_wav(text)), then the click on the start control
\* (lines 46-53, 86-130, 140-142); a Playwright error is not caught
RolePlayPrepare ==
  /\ rpc = "prepare"
  /\ \E ok \in BOOLEAN :
       IF ~ok
         THEN rpc' = "done" /\ rpResult' = "raised" /\ UNCHANGED <<rturn, turnScores, prevScores>>
       ELSE IF myTurns = 0
         THEN rpc' = "done" /\ rpResult' = "false" /\ UNCHANGED <<rturn, turnScores, prevScores>>
       ELSE /\ rpc' = "turn"
            /\ rturn' = 1
            /\ prevScores' = turnScores
            /\ turnScores' = <<>>
            /\ UNCHANGED rpResult
  /\ UNCHANGED <<rpChained, myTurns, currentRetry, rpSubmitted>>
  /\ UNCHANGED nonRolePlayVars

\* one turn of the for loop (lines 144-189): the score read, or 0 when
\* anything in the try block raised; wave.open (line 152) is outside the try
RolePlayTurn ==
  /\ rpc = "turn"
  /\ rturn <= myTurns
  /\ \E how \in {"score", "error", "wave_raise"} :
       CASE how = "score" ->
              \E sc \in TurnScores \cup {0} :
                /\ turnScores' = Append(turnScores, sc)
                /\ rturn' = rturn + 1
                /\ UNCHANGED <<rpc, rpResult>>
         [] how = "error" ->
              /\ turnScores' = Append(turnScores, 0)
              /\ rturn' = rturn + 1
              /\ UNCHANGED <<rpc, rpResult>>
         [] how = "wave_raise" ->
              /\ rpc' = "done"
              /\ rpResult' = "raised"
              /\ UNCHANGED <<rturn, turnScores>>
  /\ UNCHANGED <<rpChained, myTurns, currentRetry, prevScores, rpSubmitted>>
  /\ UNCHANGED nonRolePlayVars

\* after the last turn: the wait for the final control, the average and the
\* decision of execute (lines 191-200, 57-81)
RolePlayEvaluate ==
  /\ rpc = "turn"
  /\ rturn > myTurns
  /\ \E ok \in BOOLEAN :
       IF ~ok
         THEN /\ rpc' = "done" /\ rpResult' = "raised"
              /\ UNCHANGED <<currentRetry, rpSubmitted>>
       ELSE IF AverageReachesThreshold(turnScores)
         THEN /\ rpc' = "done" /\ rpResult' = "true"
              /\ rpSubmitted' = ~rpChained
              /\ UNCHANGED currentRetry
       ELSE /\ currentRetry' = currentRetry + 1
            /\ IF currentRetry + 1 <= max_retries
                 THEN rpc' = "prepare" /\ UNCHANGED <<rpResult, rpSubmitted>>
                 ELSE /\ rpc' = "done" /\ rpResult' = "false"
                      /\ \E clicked \in BOOLEAN :
                           rpSubmitted' = (FailureClicksSubmit(rpChained) /\ clicked)
  /\ UNCHANGED <<rpChained, myTurns, rturn, turnScores, prevScores>>
  /\ UNCHANGED nonRolePlayVars

RolePlayInit ==
  /\ RolePlayStart /\ CfgIdle /\ CacheIdle /\ VoiceIdle /\ SpliceIdle /\ SolverIdle
  /\ ChainIdle /\ DispatchIdle /\ RecordingIdle /\ VisitIdle /\ ReplayIdle

RolePlayNext == RolePlayPrepare \/ RolePlayTurn \/ RolePlayEvaluate

SpecRolePlay == RolePlayInit /\ [][RolePlayNext]_vars

\* C25: role-play turns follow the score ladder of the other voice solvers:
\* after a turn scored below 60 no further turn is played, no further pass
\* over the dialogue is started and the page does not succeed; a turn that
\* scored 85 or more is not played again; the page succeeds only when every
\* turn's score is at least 80.
C25_RolePlayLadder ==
  /\ \A i \in 1..Len(turnScores) :
        turnScores[i] < HardFailScore => (i = Len(turnScores) /\ rpResult # "true")
  /\ \A i \in 1..Len(prevScores) : prevScores[i] >= HardFailScore
  /\ \A i \in 1..Len(prevScores) : prevScores[i] >= ExcellentScore => Len(turnScores) < i
  /\ rpResult = "true" => \A i \in 1..Len(turnScores) : turnScores[i] >= AcceptableScore

\* the three voice solvers side by side: a page is solved by one of them
VoiceOrRolePlayInit == LadderInit \/ RolePlayInit

VoiceOrRolePlayNext == LadderNext \/ RolePlayNext

SpecVoiceOrRolePlay == VoiceOrRolePlayInit /\ [][VoiceOrRolePlayNext]_vars

\* C37 as stated: a voice solver (read-aloud, QA-voice, role-play) that ends
\* in failure has not clicked the final submit control of its page, chained
\* or not.
C37_FailureNeverSubmits ==
  /\ vresult = "false" => ~vsubmitted
  /\ rpResult = "false" => ~rpSubmitted

\* C37 amended: read-aloud and QA-voice never click the final submit control
\* when they end in failure; role-play never does in chained mode, and in
\* non-chained mode it clicks the control only when its retries are
\* exhausted, never when it fails for want of turns.
C37_FailureSubmitsOnlyRolePlayLastTry ==
  /\ vresult = "false" => ~vsubmitted
  /\ (rpResult = "false" /\ rpSubmitted)
       => (~rpChained /\ currentRetry > max_retries /\ myTurns > 0)

\* C37 witness: a non-chained role-play page failed after its last retry and
\* the submit control was clicked
C37_Witness ==
  /\ rpc = "done"
  /\ rpResult = "false"
  /\ ~rpChained
  /\ currentRetry = max_retries + 1
  /\ rpSubmitted

-----------------------------------------------------------------------------
(* Timing of one recording: the attempt of _execute_single_voice_task      *)
(* (one-shot script) and the turn of _execute_and_evaluate_turns           *)
(* (persistent script)                                                     *)

\* the 0.5 s added to the clip's duration (base_voice_strategy line 138,
\* role_play_strategy line 171); the unit of time of this section
RecordingBuffer == 1

\* clip lengths, in units of 0.5 s
ClipDurations == {1, 2}

RecordingStart ==
  /\ tmode \in {"oneshot", "persistent"}
  /\ tpc = "arm"
  /\ clock = 0
  /\ duration \in ClipDurations
  /\ armedAt = -1
  /\ sleepFrom = -1
  /\ substitutedAt = -1
  /\ stoppedAt = -1

\* the page is recording and hands audio frames to its WebSocket: after the
\* click on the record control (one-shot), during the active turn
\* (persistent; the turn is active before the payload is set)
PageRecording ==
  IF tmode = "oneshot" THEN tpc \in {"await", "sleep"} ELSE tpc \in {"arm", "sleep"}

\* page.evaluate(injection_script) (base_voice line 130) or
\* _set_persistent_audio_payload (role_play line 167), which is followed at
\* once by the wait of duration + 0.5 s
RecArm ==
  /\ tpc = "arm"
  /\ armedAt' = clock
  /\ IF tmode = "oneshot"
       THEN tpc' = "click" /\ UNCHANGED sleepFrom
       ELSE tpc' = "sleep" /\ sleepFrom' = clock
  /\ UNCHANGED <<tmode, clock, duration, substitutedAt, stoppedAt>>
  /\ UNCHANGED nonRecordingVars

\* record_button_locator.click() (base_voice line 133)
RecClick ==
  /\ tpc = "click"
  /\ tpc' = "await"
  /\ UNCHANGED <<tmode, clock, duration, armedAt, sleepFrom, substitutedAt, stoppedAt>>
  /\ UNCHANGED nonRecordingVars

\* the recording-state icon is seen (line 136) and asyncio.sleep(duration +
\* 0.5) begins (line 138)
RecStateSeen ==
  /\ tpc = "await"
  /\ tpc' = "sleep"
  /\ sleepFrom' = clock
  /\ UNCHANGED <<tmode, clock, duration, armedAt, substitutedAt, stoppedAt>>
  /\ UNCHANGED nonRecordingVars

\* time passes
RecTick ==
  /\ tpc \in {"arm", "click", "await", "sleep"}
  /\ clock < MaxClock
  /\ clock' = clock + 1
  /\ UNCHANGED <<tmode, tpc, duration, armedAt, sleepFrom, substitutedAt, stoppedAt>>
  /\ UNCHANGED nonRecordingVars

\* the page sends the first binary frame after the payload was armed: the
\* wrapper sends the payload in its place
RecFirstFrame ==
  /\ PageRecording
  /\ armedAt # -1
  /\ substitutedAt = -1
  /\ substitutedAt' = clock
  /\ UNCHANGED <<tmode, tpc, clock, duration, armedAt, sleepFrom, stoppedAt>>
  /\ UNCHANGED nonRecordingVars

\* the wait is over (it lasts at least the time asked for) and the stop
\* control is clicked (base_voice line 139, role_play line 176)
RecStop ==
  /\ tpc = "sleep"
  /\ clock >= sleepFrom + duration + RecordingBuffer
  /\ stoppedAt' = clock
  /\ tpc' = "done"
  /\ UNCHANGED <<tmode, clock, duration, armedAt, sleepFrom, substitutedAt>>
  /\ UNCHANGED nonRecordingVars

RecordingInit ==
  /\ RecordingStart /\ CfgIdle /\ CacheIdle /\ VoiceIdle /\ SpliceIdle /\ SolverIdle
  /\ ChainIdle /\ DispatchIdle /\ RolePlayIdle /\ VisitIdle /\ ReplayIdle

RecordingNext == RecArm \/ RecClick \/ RecStateSeen \/ RecTick \/ RecFirstFrame \/ RecStop

SpecRecording == RecordingInit /\ [][RecordingNext]_vars

\* C26: in either mode the stop control is clicked no earlier than the
\* clip's duration plus the buffer after the moment the payload was
\* substituted into the channel, however long the first binary frame took.
C26_StopAfterClip ==
  (stoppedAt # -1 /\ substitutedAt # -1) =>
    stoppedAt >= substitutedAt + duration + RecordingBuffer

-----------------------------------------------------------------------------
(* A page is handled either by one solver (single-page solve) or by the    *)
(* chain loop                                                              *)

SolverOrChainInit == SolverInit \/ ChainInit

SolverOrChainNext == SolverNext \/ ChainNext

SpecSolverOrChain == SolverOrChainInit /\ [][SolverOrChainNext]_vars

\* C28: once the user declined a confirmation prompt (before the AI call or
\* before the submission) the solver has returned failure, the submit
\* control was not clicked and no step changes the cache or its file, and no
\* later step of the solver runs; in a chain the loop has ended broken at
\* that sub-task: no further sub-task was dispatched, 'next' was not
\* clicked again and no step of the final submission or of the replay ran.
C28_DeclineCancels ==
  [][/\ declined' # "none" =>
          /\ spc' = "done"
          /\ sresult' = "false"
          /\ ~ssubmitted'
          /\ cache' = cache
          /\ file' = file
     /\ declinedAt' # -1 =>
          /\ cpc' = "done"
          /\ chainEnd' = "broken"
          /\ subTaskIndex' = declinedAt'
          /\ nextClicks' = declinedAt'
          /\ Len(dispatchLog') = declinedAt' + 1
          /\ chainLog' = <<>>
          /\ tasksToCache' = tasksToCache
          /\ cache' = cache
          /\ file' = file]_vars

\* C28 witness: the user declined the submit confirmation of a solver that
\* had filled in the AI's answers
C28_Witness ==
  /\ declined = "submit"
  /\ fillSource = "ai"
  /\ sresult = "false"
  /\ ~ssubmitted

\* C30: when the final submission of a chain is performed, every sub-task
\* that a cacheable solver (single choice, multiple choice, fill-in-the-blank,
\* drag-and-drop) solved through the AI is in the pending list with its
\* index and type, so that the replay harvests and saves its answers.
C30_AISolvedPending ==
  chainEnd = "submitted" =>
    \A t \in aiSolved : \E j \in 1..Len(tasksToCache) : tasksToCache[j] = t

\* the non-empty materials of a sequence of extraction results
RECURSIVE NonEmptyMaterials(_)
NonEmptyMaterials(ms) ==
  IF ms = <<>> THEN <<>>
  ELSE (IF Head(ms) # "" THEN <<Head(ms)>> ELSE <<>>) \o NonEmptyMaterials(Tail(ms))

\* C31: within one chain the shared context is, at every moment, the
\* materials extracted so far from the sub-tasks without a matching solver,
\* in order, none removed; and every solver call received a context that is
\* a prefix of the present one and holds the material of every unmatched
\* sub-task before it (as many materials as were extracted before the call).
C31_ContextOnlyGrows ==
  /\ sharedContext = NonEmptyMaterials(materialSeen)
  /\ \A j \in 1..Len(passedContext) :
        /\ Len(passedContext[j].ctx) <= Len(sharedContext)
        /\ passedContext[j].ctx = SubSeq(sharedContext, 1, Len(passedContext[j].ctx))
  /\ \A j \in 1..Len(passedContext) :
        passedContext[j].ctx =
          NonEmptyMaterials(SubSeq(materialSeen, 1, passedContext[j].seen))

\* C31 witness: two sub-tasks without a solver yielded material and the
\* solver of the third sub-task was called with both
C31_Witness ==
  /\ sharedContext = <<"m1", "m2">>
  /\ Len(passedContext) = 1
  /\ passedContext[1] = [index |-> 2, ctx |-> <<"m1", "m2">>, seen |-> 2]

-----------------------------------------------------------------------------
(* config.HAS_FETCHED_REMOTE_ARTICLE over the page visits of one run:      *)
(* run_strategy_on_current_page is called once per task (main.py 308-312)  *)

\* the attribute is assigned only at main.py:162; src/config.py does not
\* define it
VisitStart ==
  /\ hasFetched = "undef"
  /\ visitLog = <<>>

\* a visit that takes the chain branch: the latch is cleared (line 162); a
\* QAVoiceStrategy sub-task is called with sub_task_index, which its
\* execute does not accept (qa_voice_strategy.py:52), so no fetch is made
VisitChain ==
  /\ Len(visitLog) < MaxVisits
  /\ hasFetched' = "unset"
  /\ visitLog' = Append(visitLog, [branch |-> "chain", needs |-> FALSE, atStart |-> "unset",
                                    fetch |-> "none", result |-> "chain"])
  /\ UNCHANGED <<cacheVars, cfg, voiceVars, spliceVars, solverVars, chainVars, dispatchVars,
                 rolePlayVars, recordingVars, replay>>

\* the condition of qa_voice_strategy.py:68 and the fetch it guards
\* (lines 69-94): what is done with the latch l when the directions need
\* the article; ok: the navigation to the first tab and back succeeded
RemoteArticleFetch(l, ok) ==
  CASE l = "undef" -> [fetch |-> "none", latch |-> l, result |-> "raised"]   \* AttributeError
    [] l = "set" -> [fetch |-> "skipped", latch |-> l, result |-> "continues"]
    [] l = "unset" ->
         IF ok THEN [fetch |-> "done", latch |-> "set", result |-> "continues"]
         ELSE [fetch |-> "failed", latch |-> l, result |-> "false"]

\* a visit that takes the single-page branch or the branch without a
\* control (lines 145-156, 231-251) and matches QAVoiceStrategy; needs: the
\* directions say 'about the passage you have just read'
VisitQAVoice ==
  /\ Len(visitLog) < MaxVisits
  /\ \E branch \in {"single", "none"}, needs \in BOOLEAN, ok \in BOOLEAN :
       LET r == IF needs THEN RemoteArticleFetch(hasFetched, ok)
                ELSE [fetch |-> "none", latch |-> hasFetched, result |-> "continues"]
       IN  /\ hasFetched' = r.latch
           /\ visitLog' = Append(visitLog, [branch |-> branch, needs |-> needs,
                                            atStart |-> hasFetched, fetch |-> r.fetch,
                                            result |-> r.result])
  /\ UNCHANGED <<cacheVars, cfg, voiceVars, spliceVars, solverVars, chainVars, dispatchVars,
                 rolePlayVars, recordingVars, replay>>

VisitInit ==
  /\ VisitStart /\ CfgIdle /\ CacheIdle /\ VoiceIdle /\ SpliceIdle /\ SolverIdle
  /\ ChainIdle /\ DispatchIdle /\ RolePlayIdle /\ RecordingIdle /\ ReplayIdle

VisitNext == VisitChain \/ VisitQAVoice

SpecVisits == VisitInit /\ [][VisitNext]_vars

\* C34: when the branch a page visit takes begins its work (the chain branch
\* after its own reset, the other two as they are entered), the latch is
\* defined and unset; so a visit whose directions need the article attempts
\* the fetch, whatever an earlier visit fetched.
C34_LatchPerVisit ==
  \A j \in 1..Len(visitLog) :
    /\ visitLog[j].atStart = "unset"
    /\ (visitLog[j].branch # "chain" /\ visitLog[j].needs)
         => visitLog[j].fetch \in {"done", "failed"}

-----------------------------------------------------------------------------
(* _cache_chained_answers (src/main.py 47-101) run on a pending list, with *)
(* the answer-review screens of the chain's sub-tasks                      *)

\* strategy_type of the entries a pending list can hold
ReplayTags == {"single_choice", "fill_in_the_blank"}

\* what the extract_*_from_analysis_page methods return on one screen: a
\* list of answer strings, [] when nothing is found or on any error
ScreenHarvests == {<<>>, <<"A">>}

\* the pending lists: entries {index, type} with distinct indices, in the
\* order the loop body appended them or any other
PendingLists ==
  {ts \in SeqsUpTo([index : 0..(MaxSubTasks - 1), type : ReplayTags], MaxSubTasks) :
     \A a, b \in 1..Len(ts) : a # b => ts[a].index # ts[b].index}

ReplayStart ==
  /\ replay \in [pc : {"enter"}, pending : PendingLists,
                  harvests : [0..(MaxSubTasks - 1) -> ScreenHarvests], pos : {0},
                  current_analysis_index : {0}, screen : {0}, visited : {<<>>}, end : {"none"}]
  /\ file \in ChainFiles
  /\ cache = _load_cache(file)
  /\ opCount = 0
  /\ lastCall = NoCall
  /\ prevCall = NoCall
  /\ getResult = NoResult
  /\ savedLog = <<>>
  /\ repeated = FALSE

ReplayEnd(how) == [replay EXCEPT !.pc = "done", !.end = how]

\* lines 56-68: nothing pending -> return; _navigate_to_answer_analysis_page
\* (raises when the review page is not reached, caught at line 100); sort
ReplayEnter ==
  /\ replay.pc = "enter"
  /\ IF replay.pending = <<>>
       THEN replay' = ReplayEnd("empty")
       ELSE \E reached \in BOOLEAN :
              IF ~reached
                THEN replay' = ReplayEnd("navigate_raised")
                ELSE replay' = [replay EXCEPT !.pc = "loop", !.pos = 1,
                                              !.pending = SortByIndex(replay.pending)]
  /\ UNCHANGED <<cacheVars, nonReplayVars>>

\* clicks_needed = target_index - current_analysis_index (line 74)
ClicksNeeded(target, current) == IF target > current THEN target - current ELSE 0

\* one pass of the for loop (lines 69-96): the clicks on 'next', the
\* harvest of the screen shown, the save.  click_next_on_analysis_page
\* raises when the control is not visible; an exception ends the replay
\* (line 100)
ReplayVisit ==
  /\ replay.pc = "loop"
  /\ IF replay.pos > Len(replay.pending)
       THEN replay' = ReplayEnd("complete") /\ UNCHANGED <<cache, file>>
       ELSE LET task == replay.pending[replay.pos]
                clicks == ClicksNeeded(task.index, replay.current_analysis_index)
                shown == replay.screen + clicks
                h == replay.harvests[shown]
                visit(res) == [index |-> task.index, screen |-> shown, harvest |-> h,
                               result |-> res]
                moved == [replay EXCEPT !.current_analysis_index = task.index,
                                        !.screen = shown]
            IN  \E clickOk \in BOOLEAN :
                  IF clicks > 0 /\ ~clickOk
                    THEN replay' = ReplayEnd("click_raised") /\ UNCHANGED <<cache, file>>
                  ELSE IF h = <<>>
                    THEN /\ replay' = [moved EXCEPT !.pos = @ + 1,
                                                    !.visited = Append(@, visit("skipped"))]
                         /\ UNCHANGED <<cache, file>>
                  ELSE LET r == save_task_page_answers(cache, file, SubTaskKey(task.index),
                                                       task.type, StrAnswers(h))
                       IN  /\ cache' = r.c
                           /\ file' = r.f
                           /\ replay' = IF r.raised
                                          THEN [moved EXCEPT !.pc = "done", !.end = "save_raised",
                                                             !.visited = Append(@, visit("raised"))]
                                          ELSE [moved EXCEPT !.pos = @ + 1,
                                                             !.visited = Append(@, visit("saved"))]
  /\ UNCHANGED <<opCount, lastCall, prevCall, getResult, savedLog, repeated>>
  /\ UNCHANGED nonReplayVars

ReplayInit ==
  /\ ReplayStart /\ CfgIdle /\ VoiceIdle /\ SpliceIdle /\ SolverIdle /\ ChainIdle
  /\ DispatchIdle /\ RolePlayIdle /\ RecordingIdle /\ VisitIdle

ReplayNext == ReplayEnter \/ ReplayVisit

SpecReplay == ReplayInit /\ [][ReplayNext]_vars

====
